---- MODULE Spec2Model ----
(***************************************************************************)
(* Verification model of the legate.core operation pipeline:               *)
(*   - FusionChecker and its constraint chain   (runtime.py 718-1004)      *)
(*   - Runtime scheduling window / _schedule    (runtime.py 1232-1428)     *)
(*   - FieldManager / FieldMatch reclamation    (runtime.py 104-320)       *)
(*   - EqClass                                  (solver.py 21-94)          *)
(*   - Partitioner.partition_stores             (solver.py 130-196)        *)
(*   - AttachmentManager                        (runtime.py 323-482)       *)
(*   - Runtime.dispatch                         (runtime.py 1173-1179)     *)
(*   - PartitionManager.compute_launch_shape    (runtime.py 484-692)       *)
(*   - RegionManager, FieldManager.__init__     (runtime.py 182-267)       *)
(*   - Runtime.get_projection                   (runtime.py 1450-1480)     *)
(*   - Operation, Task and the fused-op header  (operation.py 22-132,      *)
(*                                               runtime.py 1182-1320)     *)
(*   - Copy and its launch                      (operation.py 174-226)     *)
(* Intervals are kept exactly as the code keeps them: 0-based, half-open   *)
(* pairs <<start, end>>.  ops[i] of the code is ops[i + 1] here.           *)
(***************************************************************************)
EXTENDS Integers, Sequences, FiniteSets, TLC

VARIABLES
    \* ---- FusionChecker (one can_fuse call, pass by pass)
    fc_ops,          \* FusionChecker.ops: the window under test
    windows,         \* can_fuse local `windows`: the current interval list
    fc_hist,         \* the interval lists seen so far: the seed, then each pass's result
    fc_pc,           \* position in can_fuse: number of passes applied (0..5)
    fusable,         \* the `fusable` flag of supress_small_fusions
    \* ---- Runtime
    outstanding_ops, \* Runtime._outstanding_ops
    clearing_pipe,   \* Runtime._clearing_pipe
    rt_pc,           \* "idle" | "pipe" (inside the emission loop of _schedule)
    pipe,            \* fused_task_list entries that _schedule still has to execute
    engine,          \* launches observed at the engine interface, in order
    checked,         \* windows handed to the FusionChecker so far
    next_id,         \* number of ops submitted so far
    \* ---- FieldManager, one copy per shard
    free_fields,     \* FieldManager.free_fields
    freed_fields,    \* FieldManager.freed_fields
    matches,         \* FieldManager.matches (each entry: index of the collective + fields)
    match_counter,   \* FieldManager.match_counter
    fm_pc,           \* "idle" | "drain" | "updated": position inside allocate_field
    top_regions,     \* RegionManager: number of regions created
    active_fields,   \* fields allocated in RegionManager.active_region
    held,            \* fields handed out and not yet released by their owner
    returned,        \* history: value returned by each allocate_field call
    free_after,      \* history: free_fields when each allocate_field call returned
    consensus_in,    \* per collective, per shard: the list the shard entered with
    consensus_out,   \* per collective: the engine's answer (once both shards entered)
    \* ---- EqClass objects (solver.py)
    eq_obj,          \* the EqClass objects: _class_ids, _next_class_id, _classes
    eq_heap,         \* the Python sets the objects' _classes refer to (shared by copies)
    eq_log,          \* history: pairs recorded on each object since it was constructed
    eq_pure,         \* history: the object was only ever changed by record
    eq_last,         \* history: the last call, with what find returned before it
    eq_n,            \* number of calls made so far
    \* ---- Partitioner.partition_stores, run by two shards on the same ops (solver.py)
    pt_ops,          \* Partitioner._ops
    pt_single,       \* Partitioner._must_be_single
    pt_run,          \* per shard: the locals of partition_stores and its result
    \* ---- AttachmentManager (runtime.py)
    _attachments,            \* AttachmentManager._attachments: key -> Attachment
    _deferred_detachments,   \* AttachmentManager._deferred_detachments
    _pending_detachments,    \* number of entries of AttachmentManager._pending_detachments
    at_alive,                \* region fields that have not been collected
    at_next_rf,              \* number of region fields created so far
    at_last,                 \* history: the last call, its error, the map and the deferred
                             \* list before it, and the operations it launched, in order
    \* ---- PartitionManager (runtime.py)
    _num_pieces,             \* PartitionManager._num_pieces
    _min_shard_volume,       \* PartitionManager._min_shard_volume
    _launch_spaces,          \* PartitionManager._launch_spaces
    ls_pool,                 \* the (shape, restrictions) pairs this run asks for
    ls_calls,                \* number of compute_launch_shape calls so far
    ls_seen,                 \* history: what each pair returned the first time
    ls_last,                 \* history: the last call and its result
    \* ---- Operation (operation.py) and the fused task built from a window
    op_cur,                  \* the Operation a library is building
    op_window,               \* the operations executed so far, in order
    op_fused,                \* the fused task and its header, once built
    op_last,                 \* history: the last add_* call, its error, the op before and after
    op_n,                    \* number of add_* calls so far
    \* ---- Runtime.get_projection
    _next_projection_id,     \* Runtime._next_projection_id
    _next_sharding_id,       \* Runtime._next_sharding_id
    _registered_projections, \* Runtime._registered_projections
    _registered_shardings,   \* Runtime._registered_shardings
    pj_functors,             \* functors registered with the core library, in order
    pj_last,                 \* history: the last get_projection call, its result and the state before
    \* ---- FieldManager.__init__
    fmi_args,                \* the arguments and tunables one FieldManager is constructed with
    fmi_made,                \* the outcome of that construction
    \* ---- RegionManager
    _top_regions,            \* RegionManager._top_regions
    _region_set,             \* RegionManager._region_set
    rm_fields,               \* fields allocated so far in the field space of each region
    rm_created,              \* the regions _create_region made, in order
    rm_calls,                \* number of allocate_field calls so far
    \* ---- AttachmentManager.destroy (runtime.py)
    ds_pc,                   \* position in AttachmentManager.destroy
    ds_pending,              \* the detaches whose futures are keys of _pending_detachments
    ds_ready,                \* the detaches whose futures are ready
    ds_garbage,              \* attached allocations whose region field is unreachable
    ds_late,                 \* attached allocations whose region field the engine still refers to
    ds_deferred,             \* history: every detach that was put on the deferred list
    ds_launched,             \* history: what each perform_detachments call launched
    \* ---- Copy (operation.py) and its launch
    cp_op,                   \* the Copy a library is building
    cp_run,                  \* the partition_stores call made for the Copy
    cp_pc,                   \* build, partition or done
    cp_result,               \* what Copy.launch did: the stores looked up and the error raised
    cp_n                     \* add_* calls made so far

fc_vars == <<fc_ops, windows, fc_hist, fc_pc, fusable>>
rt_vars == <<outstanding_ops, clearing_pipe, rt_pc, pipe, engine, checked, next_id>>
fm_vars == <<free_fields, freed_fields, matches, match_counter, fm_pc, top_regions,
             active_fields, held, returned, free_after, consensus_in, consensus_out>>
eq_vars == <<eq_obj, eq_heap, eq_log, eq_pure, eq_last, eq_n>>
core_vars == <<fc_vars, rt_vars, fm_vars>>
pt_vars == <<pt_ops, pt_single, pt_run>>
at_vars == <<_attachments, _deferred_detachments, _pending_detachments, at_alive,
             at_next_rf, at_last>>
ls_vars == <<_num_pieces, _min_shard_volume, _launch_spaces, ls_pool, ls_calls, ls_seen,
             ls_last>>
op_vars == <<op_cur, op_window, op_fused, op_last, op_n>>
pj_vars == <<_next_projection_id, _next_sharding_id, _registered_projections,
             _registered_shardings, pj_functors, pj_last>>
fmi_vars == <<fmi_args, fmi_made>>
rm_vars == <<_top_regions, _region_set, rm_fields, rm_created, rm_calls>>
ds_vars == <<ds_pc, ds_pending, ds_ready, ds_garbage, ds_late, ds_deferred, ds_launched>>
cp_vars == <<cp_op, cp_run, cp_pc, cp_result, cp_n>>
lib_vars == <<eq_vars, pt_vars, at_vars, ls_vars, op_vars, pj_vars, fmi_vars, rm_vars,
              ds_vars, cp_vars>>
eq_others == <<core_vars, pt_vars, at_vars, ls_vars, op_vars, pj_vars, fmi_vars, rm_vars,
               ds_vars, cp_vars>>
pt_others == <<core_vars, eq_vars, at_vars, ls_vars, op_vars, pj_vars, fmi_vars, rm_vars,
               ds_vars, cp_vars>>
at_others == <<core_vars, eq_vars, pt_vars, ls_vars, op_vars, pj_vars, fmi_vars, rm_vars,
               ds_vars, cp_vars>>
ls_others == <<core_vars, eq_vars, pt_vars, at_vars, op_vars, pj_vars, fmi_vars, rm_vars,
               ds_vars, cp_vars>>
op_others == <<core_vars, eq_vars, pt_vars, at_vars, ls_vars, pj_vars, fmi_vars, rm_vars,
               ds_vars, cp_vars>>
pj_others == <<core_vars, eq_vars, pt_vars, at_vars, ls_vars, op_vars, fmi_vars, rm_vars,
               ds_vars, cp_vars>>
fmi_others == <<core_vars, eq_vars, pt_vars, at_vars, ls_vars, op_vars, pj_vars, rm_vars,
                ds_vars, cp_vars>>
rm_others == <<core_vars, eq_vars, pt_vars, at_vars, ls_vars, op_vars, pj_vars, fmi_vars,
               ds_vars, cp_vars>>
ds_others == <<core_vars, eq_vars, pt_vars, at_vars, ls_vars, op_vars, pj_vars, fmi_vars,
               rm_vars, cp_vars>>
cp_others == <<core_vars, eq_vars, pt_vars, at_vars, ls_vars, op_vars, pj_vars, fmi_vars,
               rm_vars, ds_vars>>
ds_at_others == <<core_vars, eq_vars, pt_vars, ls_vars, op_vars, pj_vars, fmi_vars, rm_vars, cp_vars>>
vars == <<core_vars, lib_vars>>

(***************************************************************************)
(* Bounds of the model                                                     *)
(***************************************************************************)
\* longest window handed to the FusionChecker on its own
MaxOps == 3
\* library ops submitted in one run of the Runtime
MaxSubmits == 5
\* allocate_field calls each shard issues
MaxAllocs == 4

(***************************************************************************)
(* Stores, shapes and operations as the fusion path reads them             *)
(***************************************************************************)
NoStore == "none"
Stores == {"Q", "R", "A", "B", "C"}

\* Store._parent: A and B are views of root R, C is a view of A; Q is a root.
_parent(store) ==
    CASE store = "A" -> "R"
      [] store = "B" -> "R"
      [] store = "C" -> "A"
      [] OTHER -> NoStore

RECURSIVE getRoot(_)
getRoot(store) == IF _parent(store) # NoStore THEN getRoot(_parent(store)) ELSE store

\* launch_shape of a Strategy: None or a Shape
NoneShape == [isNone |-> TRUE, extents |-> <<>>]
Shape(extents) == [isNone |-> FALSE, extents |-> extents]

\* Projection of one argument: NoPart (no `part` attribute) or a transform matrix id
NoPart == 0
Matrices == {1, 2}

Op(task_id, launch_shape, inputs, input_proj, outputs, output_proj) ==
    [_task_id |-> task_id, launch_shape |-> launch_shape,
     _inputs |-> inputs, input_proj |-> input_proj,
     _outputs |-> outputs, output_proj |-> output_proj]

\* The operations windows are drawn from.  An op without stores has a null
\* launch shape (solver.py 145-156); a projection without a partition has no
\* transform.
OpPool ==
    { Op(2,  Shape(<<2>>), <<"Q">>, <<1>>, <<>>, <<>>),
      Op(99, Shape(<<2>>), <<"Q">>, <<1>>, <<>>, <<>>),
      Op(10, NoneShape,    <<>>, <<>>, <<>>, <<>>),
      Op(21, Shape(<<4>>), <<>>, <<>>, <<"Q">>, <<1>>),
      Op(2,  Shape(<<2>>), <<"A">>, <<1>>, <<>>, <<>>),
      Op(2,  Shape(<<2>>), <<"A">>, <<2>>, <<>>, <<>>),
      Op(2,  Shape(<<2>>), <<>>, <<>>, <<"A">>, <<1>>),
      Op(2,  Shape(<<2>>), <<>>, <<>>, <<"B">>, <<1>>),
      Op(2,  Shape(<<2>>), <<"B">>, <<1>>, <<>>, <<>>),
      Op(2,  Shape(<<4>>), <<"A">>, <<2>>, <<>>, <<>>),
      Op(2,  Shape(<<2>>), <<"A">>, <<2>>, <<"B">>, <<1>>),
      Op(2,  NoneShape,    <<"C">>, <<0>>, <<>>, <<>>) }

RECURSIVE SeqsUpTo(_, _)
SeqsUpTo(S, n) ==
    IF n = 0 THEN {<<>>}
    ELSE LET shorter == SeqsUpTo(S, n - 1)
         IN  shorter \cup {Append(s, x) : s \in {t \in shorter : Len(t) = n - 1}, x \in S}

(***************************************************************************)
(* FusionChecker.supress_small_fusions                                     *)
(***************************************************************************)
fusion_threshold == 2

\* faulty variant, for sensitivity checks: the expansion stops one short of the interval's end
Singletons_short(interval) ==
    [k \in 1..(interval[2] - interval[1] - 1) |-> <<interval[1] + k - 1, interval[1] + k>>]

Singletons(interval) == [k \in 1..(interval[2] - interval[1]) |-> <<interval[1] + k - 1, interval[1] + k>>]

RECURSIVE supress_loop(_, _, _, _)
supress_loop(intervals, threshold, final_set, fus) ==
    IF intervals = <<>> THEN [fusable |-> fus, final_set |-> final_set]
    ELSE LET interval == Head(intervals)
         IN  IF interval[2] - interval[1] >= threshold
             THEN supress_loop(Tail(intervals), threshold, Append(final_set, interval), TRUE)
             ELSE supress_loop(Tail(intervals), threshold, final_set \o Singletons(interval), fus)

\* faulty variant, for sensitivity checks: the comparison with the threshold is strict
supress_small_fusions_strict(intervals, threshold) ==
    supress_loop(intervals, threshold + 1, <<>>, FALSE)

supress_small_fusions(intervals, threshold) == supress_loop(intervals, threshold, <<>>, FALSE)

(***************************************************************************)
(* AllValidOps.apply                                                       *)
(***************************************************************************)
\* faulty variant, for sensitivity checks: one more task id is let through
validIDs_with_99 == {2, 10, 21, 99}

\* lines 854-858
validIDs == {2, 10, 21}
terminals == {}

RECURSIVE AllValidOps_while(_, _, _, _, _)
AllValidOps_while(ops, baseEnd, start, end, fusable_intervals) ==
    IF end < baseEnd
    THEN IF ops[end + 1]._task_id \in validIDs /\ ops[end + 1]._task_id \notin terminals
         THEN AllValidOps_while(ops, baseEnd, start, end + 1, fusable_intervals)
         ELSE IF start < end
              THEN IF ops[end + 1]._task_id \in terminals
                   THEN AllValidOps_while(ops, baseEnd, end + 1, end + 1,
                                          Append(fusable_intervals, <<start, end + 1>>))
                   ELSE AllValidOps_while(ops, baseEnd, end, end,
                                          Append(fusable_intervals, <<start, end>>))
              ELSE AllValidOps_while(ops, baseEnd, start + 1, start + 1,
                                     Append(fusable_intervals, <<start, start + 1>>))
    ELSE IF start < end THEN Append(fusable_intervals, <<start, end>>) ELSE fusable_intervals

RECURSIVE AllValidOps_for(_, _, _)
AllValidOps_for(ops, baseIntervals, fusable_intervals) ==
    IF baseIntervals = <<>> THEN fusable_intervals
    ELSE LET baseInterval == Head(baseIntervals)
         IN  AllValidOps_for(ops, Tail(baseIntervals),
                 AllValidOps_while(ops, baseInterval[2], baseInterval[1], baseInterval[1],
                                   fusable_intervals))

AllValidOps(ops, baseIntervals) == AllValidOps_for(ops, baseIntervals, <<>>)

(***************************************************************************)
(* IdenticalLaunchShapes.apply                                             *)
(***************************************************************************)
\* faulty variant, for sensitivity checks: only null against non-null is told apart
ShapesDiffer_null_only(l, r) == l.isNone # r.isNone

ShapesDiffer(l, r) ==
    LET leftNone == l.isNone /\ ~r.isNone
        rightNone == r.isNone /\ ~l.isNone
    IN  leftNone \/ rightNone \/ l # r

RECURSIVE IdenticalLaunchShapes_while(_, _, _, _, _)
IdenticalLaunchShapes_while(ops, end, start, i, intervals) ==
    IF i < end
    THEN IF ShapesDiffer(ops[i + 1].launch_shape, ops[i].launch_shape)
         THEN IdenticalLaunchShapes_while(ops, end, i, i + 1, Append(intervals, <<start, i>>))
         ELSE IdenticalLaunchShapes_while(ops, end, start, i + 1, intervals)
    ELSE IF start < end THEN Append(intervals, <<start, end>>) ELSE intervals

RECURSIVE IdenticalLaunchShapes_for(_, _, _)
IdenticalLaunchShapes_for(ops, baseIntervals, intervals) ==
    IF baseIntervals = <<>> THEN intervals
    ELSE LET baseInterval == Head(baseIntervals)
         IN  IdenticalLaunchShapes_for(ops, Tail(baseIntervals),
                 IdenticalLaunchShapes_while(ops, baseInterval[2], baseInterval[1],
                                             baseInterval[1] + 1, intervals))

IdenticalLaunchShapes(ops, baseIntervals) == IdenticalLaunchShapes_for(ops, baseIntervals, <<>>)

(***************************************************************************)
(* IdenticalProjection.apply                                               *)
(***************************************************************************)
EmptyDict == [s \in {} |-> 0]

Keys(bufferSet) == {bufferSet[k][1] : k \in DOMAIN bufferSet}

\* lines 905-914: first occurrence of a store whose projection has a `part`
RECURSIVE AddBuffers(_, _, _)
AddBuffers(stores, projs, bufferSet) ==
    IF stores = <<>> THEN bufferSet
    ELSE AddBuffers(Tail(stores), Tail(projs),
             IF Head(stores) \notin Keys(bufferSet) /\ Head(projs) # NoPart
             THEN Append(bufferSet, <<Head(stores), Head(projs)>>)
             ELSE bufferSet)

BufferSet(op) ==
    AddBuffers(op._outputs, op.output_proj, AddBuffers(op._inputs, op.input_proj, <<>>))

\* lines 919-930: the loop over bufferSet; `continue` resumes this loop
RECURSIVE IdenticalProjection_buffers(_, _)
IdenticalProjection_buffers(bufferSet, st) ==
    IF bufferSet = <<>> THEN st
    ELSE LET buffer == Head(bufferSet)[1]
             matrix == Head(bufferSet)[2]
         IN  IF buffer \notin DOMAIN st.store_to_ops
             THEN IdenticalProjection_buffers(Tail(bufferSet),
                      [st EXCEPT !.store_to_ops = (buffer :> matrix) @@ st.store_to_ops])
             ELSE IF matrix # st.store_to_ops[buffer]
                  THEN IdenticalProjection_buffers(Tail(bufferSet),
                           [st EXCEPT !.intervals = Append(st.intervals, <<st.start, st.i>>),
                                      !.start = st.i,
                                      !.i = st.i + 1,
                                      !.store_to_ops = EmptyDict])
                  ELSE IdenticalProjection_buffers(Tail(bufferSet), st)

RECURSIVE IdenticalProjection_while(_, _, _)
IdenticalProjection_while(ops, end, st) ==
    IF st.i < end
    THEN IF st.i = 0
         THEN IdenticalProjection_while(ops, end, [st EXCEPT !.i = 1])
         ELSE LET after == IdenticalProjection_buffers(BufferSet(ops[st.i + 1]), st)
              IN  IdenticalProjection_while(ops, end, [after EXCEPT !.i = after.i + 1])
    ELSE IF st.start < end
         THEN [st EXCEPT !.intervals = Append(st.intervals, <<st.start, end>>)]
         ELSE st

RECURSIVE IdenticalProjection_for(_, _, _)
IdenticalProjection_for(ops, baseIntervals, st) ==
    IF baseIntervals = <<>> THEN st.intervals
    ELSE LET baseInterval == Head(baseIntervals)
         IN  IdenticalProjection_for(ops, Tail(baseIntervals),
                 IdenticalProjection_while(ops, baseInterval[2],
                     [st EXCEPT !.start = baseInterval[1], !.i = baseInterval[1]]))

IdenticalProjection(ops, baseIntervals) ==
    IdenticalProjection_for(ops, baseIntervals,
        [start |-> 0, i |-> 0, store_to_ops |-> EmptyDict, intervals |-> <<>>])

(***************************************************************************)
(* ValidProducerConsumer.apply                                             *)
(***************************************************************************)
\* lines 983-987
RECURSIVE isSame(_, _)
isSame(inputs, childMap) ==
    IF inputs = <<>> THEN TRUE
    ELSE LET inputRoot == getRoot(Head(inputs))
         IN  (inputRoot \in DOMAIN childMap => childMap[inputRoot] = Head(inputs))
             /\ isSame(Tail(inputs), childMap)

\* lines 997-1000
RECURSIVE RegisterOutputs(_, _)
RegisterOutputs(outputs, childMap) ==
    IF outputs = <<>> THEN childMap
    ELSE LET outputRoot == getRoot(Head(outputs))
         IN  RegisterOutputs(Tail(outputs),
                 IF outputRoot \notin DOMAIN childMap
                 THEN (outputRoot :> Head(outputs)) @@ childMap
                 ELSE childMap)

RECURSIVE ValidProducerConsumer_while(_, _, _)
ValidProducerConsumer_while(ops, end, st) ==
    IF st.i < end
    THEN LET op == ops[st.i + 1]
             split == ~isSame(op._inputs, st.childMap)
             moved == IF split
                      THEN [st EXCEPT !.intervals = Append(st.intervals, <<st.start, st.i>>),
                                      !.start = st.i,
                                      !.i = st.i + 1,
                                      !.childMap = EmptyDict]
                      ELSE [st EXCEPT !.i = st.i + 1]
         IN  ValidProducerConsumer_while(ops, end,
                 [moved EXCEPT !.childMap = RegisterOutputs(op._outputs, moved.childMap)])
    ELSE IF st.start < end
         THEN [st EXCEPT !.intervals = Append(st.intervals, <<st.start, end>>)]
         ELSE st

\* faulty variant, for sensitivity checks: `start` is not taken from the base interval
RECURSIVE ValidProducerConsumer_for_keeps_start(_, _, _)
ValidProducerConsumer_for_keeps_start(ops, baseIntervals, st) ==
    IF baseIntervals = <<>> THEN st.intervals
    ELSE ValidProducerConsumer_for_keeps_start(ops, Tail(baseIntervals),
             ValidProducerConsumer_while(ops, Head(baseIntervals)[2], st))

RECURSIVE ValidProducerConsumer_for(_, _, _)
ValidProducerConsumer_for(ops, baseIntervals, st) ==
    IF baseIntervals = <<>> THEN st.intervals
    ELSE LET baseInterval == Head(baseIntervals)
         IN  ValidProducerConsumer_for(ops, Tail(baseIntervals),
                 ValidProducerConsumer_while(ops, baseInterval[2],
                     [st EXCEPT !.start = baseInterval[1]]))

ValidProducerConsumer(ops, baseIntervals) ==
    ValidProducerConsumer_for(ops, baseIntervals,
        [start |-> 0, i |-> 0, childMap |-> EmptyDict, intervals |-> <<>>])

(***************************************************************************)
(* FusionChecker.can_fuse                                                  *)
(***************************************************************************)
\* the chain registered by build_fused_op, in order
Constraints == <<"AllValidOps", "IdenticalLaunchShapes", "IdenticalProjection",
                 "ValidProducerConsumer">>

Apply(constraint, ops, baseIntervals) ==
    CASE constraint = "AllValidOps" -> AllValidOps(ops, baseIntervals)
      [] constraint = "IdenticalLaunchShapes" -> IdenticalLaunchShapes(ops, baseIntervals)
      [] constraint = "IdenticalProjection" -> IdenticalProjection(ops, baseIntervals)
      [] constraint = "ValidProducerConsumer" -> ValidProducerConsumer(ops, baseIntervals)

RECURSIVE ApplyChain(_, _, _)
ApplyChain(constraints, ops, wins) ==
    IF constraints = <<>> THEN wins
    ELSE ApplyChain(Tail(constraints), ops, Apply(Head(constraints), ops, wins))

can_fuse(ops) ==
    supress_small_fusions(ApplyChain(Constraints, ops, << <<0, Len(ops)>> >>),
                          fusion_threshold)

(***************************************************************************)
(* One can_fuse call, pass by pass (lines 765-770)                         *)
(***************************************************************************)
FcStart(ops) ==
    /\ fc_ops = ops
    /\ windows = << <<0, Len(ops)>> >>
    /\ fc_hist = << << <<0, Len(ops)>> >> >>
    /\ fc_pc = 0
    /\ fusable = FALSE

\* build_fused_op is the only caller and hands over at least two ops (line 1364)
FcInit == \E ops \in {w \in SeqsUpTo(OpPool, MaxOps) : Len(w) >= 2} : FcStart(ops)

FcIdle == FcStart(<<>>)

FcSet(k, intervals) ==
    /\ UNCHANGED <<rt_vars, fm_vars, lib_vars>>
    /\ windows' = intervals
    /\ fc_hist' = Append(fc_hist, intervals)
    /\ fc_pc' = k
    /\ UNCHANGED <<fc_ops, fusable>>

\* line 767, once per registered constraint
ApplyAllValidOps ==
    /\ fc_pc = 0
    /\ FcSet(1, Apply(Constraints[1], fc_ops, windows))

ApplyIdenticalLaunchShapes ==
    /\ fc_pc = 1
    /\ FcSet(2, Apply(Constraints[2], fc_ops, windows))

ApplyIdenticalProjection ==
    /\ fc_pc = 2
    /\ FcSet(3, Apply(Constraints[3], fc_ops, windows))

ApplyValidProducerConsumer ==
    /\ fc_pc = 3
    /\ FcSet(4, Apply(Constraints[4], fc_ops, windows))

SupressSmallFusions ==
    /\ UNCHANGED <<rt_vars, fm_vars, lib_vars>>
    /\ fc_pc = Len(Constraints)
    /\ LET r == supress_small_fusions(windows, fusion_threshold)
       IN  /\ windows' = r.final_set
           /\ fusable' = r.fusable
    /\ fc_hist' = Append(fc_hist, windows')
    /\ fc_pc' = fc_pc + 1
    /\ UNCHANGED fc_ops

FcDone == fc_pc = Len(Constraints) + 1

(***************************************************************************)
(* Runtime: operations, strategies, build_fused_op                         *)
(***************************************************************************)
\* Runtime._window_size.  The code reads the WINDOW_SIZE tunable and then pins
\* it to 50 (lines 1052-1055); the model runs the same code with a short window.
window_size == 3

\* task id of the fused task (contexts["cunumeric"].fused_id); not in validIDs
fused_id == 1000

\* descriptors the libraries submit
RtOpPool ==
    { Op(2,  Shape(<<2>>), <<"Q">>, <<1>>, <<>>, <<>>),
      Op(99, Shape(<<2>>), <<"Q">>, <<1>>, <<>>, <<>>),
      Op(10, NoneShape,    <<>>, <<>>, <<>>, <<>>),
      Op(2,  Shape(<<2>>), <<>>, <<>>, <<"A">>, <<1>>),
      Op(2,  Shape(<<2>>), <<"B">>, <<1>>, <<>>, <<>>) }

\* A Strategy is identified by the operations its Partitioner ran over.
NoStrategy == [over |-> <<>>]
partition_stores(ids) == [over |-> ids]

\* An Operation object: the submission ids it stands for (one for a library
\* op, the sub-ops' for a fused task), its contents, and its `strategy` attribute.
NewOp(id, desc) == [ids |-> <<id>>, desc |-> desc, _is_fused |-> FALSE, strategy |-> NoStrategy]

Descs(ops) == [k \in DOMAIN ops |-> ops[k].desc]

RECURSIVE Concat(_, _)
Concat(ops, field) ==
    IF ops = <<>> THEN <<>>
    ELSE (CASE field = "ids" -> Head(ops).ids
            [] field = "_inputs" -> Head(ops).desc._inputs
            [] field = "input_proj" -> Head(ops).desc.input_proj
            [] field = "_outputs" -> Head(ops).desc._outputs
            [] field = "output_proj" -> Head(ops).desc.output_proj) \o Concat(Tail(ops), field)

\* lines 1289-1320: the fused task built from op_subset
FusedTask(op_subset) ==
    [ids |-> Concat(op_subset, "ids"),
     desc |-> Op(fused_id, op_subset[1].desc.launch_shape,
                 Concat(op_subset, "_inputs"), Concat(op_subset, "input_proj"),
                 Concat(op_subset, "_outputs"), Concat(op_subset, "output_proj")),
     _is_fused |-> TRUE,
     strategy |-> NoStrategy]

\* faulty variant, for sensitivity checks: opID advances by one per fusable set
RECURSIVE new_op_list_per_set(_, _, _, _, _)
new_op_list_per_set(ops, fusable_sets, partitions, opID, acc) ==
    IF fusable_sets = <<>> THEN acc
    ELSE LET start == Head(fusable_sets)[1]
             end == Head(fusable_sets)[2]
             rest == Tail(fusable_sets)
         IN  IF end - start = 0
             THEN new_op_list_per_set(ops, rest, partitions, opID, acc)
             ELSE IF end - start = 1
                  THEN new_op_list_per_set(ops, rest, partitions, opID + 1,
                           Append(acc, [ops[start + 1] EXCEPT !.strategy = partitions[opID + 1]]))
                  ELSE new_op_list_per_set(ops, rest, partitions, opID + 1,
                           Append(acc, FusedTask(SubSeq(ops, start + 1, end))))

\* lines 1273-1320: the loop over fusable_sets, with its running opID
RECURSIVE new_op_list(_, _, _, _, _)
new_op_list(ops, fusable_sets, partitions, opID, acc) ==
    IF fusable_sets = <<>> THEN acc
    ELSE LET start == Head(fusable_sets)[1]
             end == Head(fusable_sets)[2]
             rest == Tail(fusable_sets)
         IN  IF end - start = 0
             THEN new_op_list(ops, rest, partitions, opID, acc)
             ELSE IF end - start = 1
                  THEN new_op_list(ops, rest, partitions, opID + 1,
                           Append(acc, [ops[start + 1] EXCEPT !.strategy = partitions[opID + 1]]))
                  ELSE new_op_list(ops, rest, partitions, opID + (end - start),
                           Append(acc, FusedTask(SubSeq(ops, start + 1, end))))

\* lines 1328-1342: fused tasks are partitioned again, on their own
Repartition(task) ==
    IF task._is_fused THEN [task EXCEPT !.strategy = partition_stores(task.ids)] ELSE task

build_fused_op(ops) ==
    LET fusable_sets == can_fuse(Descs(ops)).final_set
        partitions == [k \in DOMAIN ops |-> partition_stores(ops[k].ids)]
        made == new_op_list(ops, fusable_sets, partitions, 0, <<>>)
    IN  [k \in DOMAIN made |-> Repartition(made[k])]

Launch(op, strategy) == [ids |-> op.ids, strategy |-> strategy]

(***************************************************************************)
(* Runtime._schedule, submit, flush_scheduling_window, _launch_outstanding *)
(* as functions of the Runtime's state rt                                  *)
(***************************************************************************)
RtState == [outstanding_ops |-> outstanding_ops, clearing_pipe |-> clearing_pipe,
            rt_pc |-> rt_pc, pipe |-> pipe, engine |-> engine, checked |-> checked]

\* faulty variant, for sensitivity checks: the emission loop walks the list backwards
RECURSIVE EmissionOrder_reversed(_)
EmissionOrder_reversed(fused_task_list) ==
    IF fused_task_list = <<>> THEN <<>>
    ELSE Append(EmissionOrder_reversed(Tail(fused_task_list)), Head(fused_task_list))

\* line 1368: the order in which _schedule executes fused_task_list
EmissionOrder(fused_task_list) == fused_task_list

_schedule(rt, ops, force_eval) ==
    IF Len(ops) >= 2 /\ ~force_eval
    THEN \* case 1: the emission loop runs as PipeExecute steps
         LET fused_task_list == build_fused_op(ops)
             seen == [rt EXCEPT !.checked = Append(rt.checked, Concat(ops, "ids"))]
         IN  IF fused_task_list # <<>>
             THEN [seen EXCEPT !.clearing_pipe = TRUE,
                               !.pipe = EmissionOrder(fused_task_list),
                               !.rt_pc = "pipe"]
             ELSE seen
    ELSE IF Len(ops) = 1 /\ rt.clearing_pipe
    THEN \* case 2: ops[0].strategy; an op that never got one raises here
         IF ops[1].strategy # NoStrategy
         THEN [rt EXCEPT !.engine = Append(rt.engine, Launch(ops[1], ops[1].strategy))]
         ELSE rt
    ELSE \* case 3
         [rt EXCEPT !.engine = rt.engine \o
              [k \in DOMAIN ops |-> Launch(ops[k], partition_stores(ops[k].ids))]]

\* faulty variant, for sensitivity checks: submit does not look at clearing_pipe
SubmitForwards_never(rt) == FALSE

\* line 1399
SubmitForwards(rt) == rt.clearing_pipe

\* faulty variant, for sensitivity checks: the window is drained one submit late
WindowFull_late(n) == n > window_size

\* line 1403
WindowFull(n) == n >= window_size

submit(rt, op) ==
    IF SubmitForwards(rt)
    THEN _schedule(rt, <<op>>, FALSE)
    ELSE LET ops == Append(rt.outstanding_ops, op)
         IN  IF WindowFull(Len(ops))
             THEN _schedule([rt EXCEPT !.outstanding_ops = <<>>], ops, FALSE)
             ELSE [rt EXCEPT !.outstanding_ops = ops]

flush_scheduling_window(rt) ==
    IF Len(rt.outstanding_ops) = 0 THEN rt
    ELSE _schedule([rt EXCEPT !.outstanding_ops = <<>>], rt.outstanding_ops, FALSE)

_launch_outstanding(rt) ==
    IF Len(rt.outstanding_ops) # 0
    THEN _schedule([rt EXCEPT !.outstanding_ops = <<>>], rt.outstanding_ops, TRUE)
    ELSE rt

(***************************************************************************)
(* Runtime: the state machine                                              *)
(***************************************************************************)
RtInit ==
    /\ outstanding_ops = <<>>
    /\ clearing_pipe = FALSE
    /\ rt_pc = "idle"
    /\ pipe = <<>>
    /\ engine = <<>>
    /\ checked = <<>>
    /\ next_id = 0

RtSet(rt) ==
    /\ UNCHANGED <<fc_vars, fm_vars, lib_vars>>
    /\ outstanding_ops' = rt.outstanding_ops
    /\ clearing_pipe' = rt.clearing_pipe
    /\ rt_pc' = rt.rt_pc
    /\ pipe' = rt.pipe
    /\ engine' = rt.engine
    /\ checked' = rt.checked

\* a library calls op.execute() (operation.py 120-121)
Submit(desc) ==
    /\ rt_pc = "idle"
    /\ next_id < MaxSubmits
    /\ next_id' = next_id + 1
    /\ RtSet(submit(RtState, NewOp(next_id + 1, desc)))

Flush ==
    /\ rt_pc = "idle"
    /\ outstanding_ops # <<>>
    /\ RtSet(flush_scheduling_window(RtState))
    /\ UNCHANGED next_id

LaunchOutstanding ==
    /\ rt_pc = "idle"
    /\ outstanding_ops # <<>>
    /\ RtSet(_launch_outstanding(RtState))
    /\ UNCHANGED next_id

\* line 1369 inside the loop of line 1368: task.execute(), which re-enters submit
PipeExecute ==
    /\ rt_pc = "pipe"
    /\ pipe # <<>>
    /\ RtSet(submit([RtState EXCEPT !.pipe = Tail(pipe)], Head(pipe)))
    /\ UNCHANGED next_id

\* line 1370: the loop is over
PipeDone ==
    /\ UNCHANGED <<fc_vars, fm_vars, lib_vars>>
    /\ rt_pc = "pipe"
    /\ pipe = <<>>
    /\ clearing_pipe' = FALSE
    /\ rt_pc' = "idle"
    /\ UNCHANGED <<outstanding_ops, pipe, engine, checked, next_id>>

\* a launch inside the loop raises: the error reaches the caller of
\* submit/flush and line 1370 is not executed
PipeRaise ==
    /\ UNCHANGED <<fc_vars, fm_vars, lib_vars>>
    /\ rt_pc = "pipe"
    /\ pipe # <<>>
    /\ pipe' = <<>>
    /\ rt_pc' = "idle"
    /\ UNCHANGED <<outstanding_ops, clearing_pipe, engine, checked, next_id>>

(***************************************************************************)
(* FieldMatch / RegionManager / FieldManager, replicated on two shards     *)
(***************************************************************************)
Shards == {1, 2}

\* FieldManager.match_frequency (set in __init__, lines 253-267, from the
\* FIELD_REUSE tunables)
match_frequency == 2

\* fields one field space holds before has_space turns false (engine limit)
FieldSpaceCapacity == 2

Range(seq) == {seq[k] : k \in DOMAIN seq}

\* A field is <<region, field_id>>; a region is named by its position in
\* _top_regions.  region.handle.tree_id as the match buffers carry it:
tree_id(region) == region + 10
Wire(f) == <<tree_id(f[1]), f[2]>>

\* lines 117-120: FieldMatch.input
MatchInput(fields) == [k \in DOMAIN fields |-> Wire(fields[k])]

\* lines 159-167: the index at which the output buffer holds the field, 0 if none
FoundAt(f, output) ==
    LET hits == {idx \in DOMAIN output : output[idx] = Wire(f)}
    IN  IF hits = {} THEN 0 ELSE CHOOSE idx \in hits : \A other \in hits : idx <= other

\* faulty variant, for sensitivity checks: the accepted fields are queued in the order of the local list
ordered_fields_local_order(fields, output) ==
    SelectSeq(fields, LAMBDA f : FoundAt(f, output) # 0)

\* lines 156-167: ordered_fields, filled by the scan over self.fields
ordered_fields(fields, output) ==
    [idx \in DOMAIN output |-> CHOOSE f \in Range(fields) : FoundAt(f, output) = idx]

\* faulty variant, for sensitivity checks: accepted fields are handed back as well
put_back_every(fields, output) == fields

\* lines 168-170 and 178-179: the fields handed back to the unordered list
put_back(fields, output) == SelectSeq(fields, LAMBDA f : FoundAt(f, output) = 0)

\* FieldMatch.update_free_fields on a manager whose lists are free and freed
update_free_fields(fields, output, free, freed) ==
    IF Len(fields) = 0 THEN [free_fields |-> free, freed_fields |-> freed]
    ELSE IF Len(output) > 0
         THEN [free_fields |-> free \o ordered_fields(fields, output),
               freed_fields |-> freed \o put_back(fields, output)]
         ELSE [free_fields |-> free, freed_fields |-> freed \o fields]

\* faulty variant, for sensitivity checks: the two branches are swapped
free_field_swapped(lists, f, ordered) ==
    IF ordered
    THEN [lists EXCEPT !.freed_fields = Append(@, f)]
    ELSE [lists EXCEPT !.free_fields = Append(@, f)]

\* FieldManager.free_field (lines 314-320) on lists that are not destroyed
free_field(lists, f, ordered) ==
    IF ordered
    THEN [lists EXCEPT !.free_fields = Append(@, f)]
    ELSE [lists EXCEPT !.freed_fields = Append(@, f)]

\* all orders of a finite set
RECURSIVE Perms(_)
Perms(S) ==
    IF S = {} THEN {<<>>}
    ELSE UNION {{<<x>> \o p : p \in Perms(S \ {x})} : x \in S}

FmInit ==
    /\ free_fields = [s \in Shards |-> <<>>]
    /\ freed_fields = [s \in Shards |-> <<>>]
    /\ matches = [s \in Shards |-> <<>>]
    /\ match_counter = [s \in Shards |-> 0]
    /\ fm_pc = [s \in Shards |-> "idle"]
    /\ top_regions = [s \in Shards |-> 0]
    /\ active_fields = [s \in Shards |-> 0]
    /\ held = [s \in Shards |-> {}]
    /\ returned = [s \in Shards |-> <<>>]
    /\ free_after = [s \in Shards |-> <<>>]
    /\ consensus_in = [s \in Shards |-> <<>>]
    /\ consensus_out = <<>>

\* faulty variant, for sensitivity checks: the newest entry is handed out
popleft_newest(q) == [item |-> q[Len(q)], rest |-> SubSeq(q, 1, Len(q) - 1)]

\* deque.popleft (lines 301 and 309)
popleft(q) == [item |-> Head(q), rest |-> Tail(q)]

\* faulty variant, for sensitivity checks: the exchange comes one call late
match_due_late(counter) == counter > match_frequency

\* line 278
match_due(counter) == counter = match_frequency

\* allocate_field returns f on shard s, leaving `free` as its free_fields
Return(s, f, free) ==
    /\ free_fields' = [free_fields EXCEPT ![s] = free]
    /\ returned' = [returned EXCEPT ![s] = Append(@, f)]
    /\ free_after' = [free_after EXCEPT ![s] = Append(@, free)]
    /\ held' = [held EXCEPT ![s] = @ \cup {f}]
    /\ fm_pc' = [fm_pc EXCEPT ![s] = "idle"]

\* lines 274-301: count, dispatch a match when due, hand out the head of
\* free_fields when there is one
AllocBegin(s) ==
    /\ UNCHANGED <<rt_vars, fc_vars, lib_vars>>
    /\ fm_pc[s] = "idle"
    /\ Len(returned[s]) < MaxAllocs
    /\ LET due == match_due(match_counter[s] + 1)
           match == [k |-> Len(consensus_in[s]) + 1, fields |-> freed_fields[s]]
       IN  /\ match_counter' = [match_counter EXCEPT ![s] = IF due THEN 0 ELSE @ + 1]
           /\ freed_fields' = [freed_fields EXCEPT ![s] = IF due THEN <<>> ELSE @]
           /\ matches' = [matches EXCEPT ![s] = IF due THEN Append(@, match) ELSE @]
           /\ consensus_in' = [consensus_in EXCEPT ![s] =
                                   IF due THEN Append(@, MatchInput(match.fields)) ELSE @]
    /\ IF Len(free_fields[s]) > 0
       THEN Return(s, popleft(free_fields[s]).item, popleft(free_fields[s]).rest)
       ELSE /\ fm_pc' = [fm_pc EXCEPT ![s] = "drain"]
            /\ UNCHANGED <<free_fields, returned, free_after, held>>
    /\ UNCHANGED <<top_regions, active_fields, consensus_out>>

\* lines 304-306: pop the oldest match and update the lists from its answer;
\* a match that offered fields waits for the collective to complete
DrainUpdate(s) ==
    /\ UNCHANGED <<rt_vars, fc_vars, lib_vars>>
    /\ fm_pc[s] = "drain"
    /\ matches[s] # <<>>
    /\ LET match == Head(matches[s])
           ready == Len(consensus_out) >= match.k
       IN  /\ Len(match.fields) > 0 => ready
           /\ LET output == IF ready THEN consensus_out[match.k] ELSE <<>>
                  upd == update_free_fields(match.fields, output,
                                            free_fields[s], freed_fields[s])
              IN  /\ free_fields' = [free_fields EXCEPT ![s] = upd.free_fields]
                  /\ freed_fields' = [freed_fields EXCEPT ![s] = upd.freed_fields]
    /\ matches' = [matches EXCEPT ![s] = Tail(@)]
    /\ fm_pc' = [fm_pc EXCEPT ![s] = "updated"]
    /\ UNCHANGED <<match_counter, top_regions, active_fields, held, returned, free_after,
                   consensus_in, consensus_out>>

\* lines 308-309
DrainCheck(s) ==
    /\ UNCHANGED <<rt_vars, fc_vars, lib_vars>>
    /\ fm_pc[s] = "updated"
    /\ IF Len(free_fields[s]) > 0
       THEN Return(s, popleft(free_fields[s]).item, popleft(free_fields[s]).rest)
       ELSE /\ fm_pc' = [fm_pc EXCEPT ![s] = "drain"]
            /\ UNCHANGED <<free_fields, returned, free_after, held>>
    /\ UNCHANGED <<freed_fields, matches, match_counter, top_regions, active_fields,
                   consensus_in, consensus_out>>

\* lines 311-312 with RegionManager.allocate_field (228-233)
AllocNew(s) ==
    /\ UNCHANGED <<rt_vars, fc_vars, lib_vars>>
    /\ fm_pc[s] = "drain"
    /\ matches[s] = <<>>
    /\ LET has_space == top_regions[s] > 0 /\ active_fields[s] < FieldSpaceCapacity
           regions == IF has_space THEN top_regions[s] ELSE top_regions[s] + 1
           field_id == IF has_space THEN active_fields[s] + 1 ELSE 1
       IN  /\ top_regions' = [top_regions EXCEPT ![s] = regions]
           /\ active_fields' = [active_fields EXCEPT ![s] = field_id]
           /\ Return(s, <<regions, field_id>>, free_fields[s])
    /\ UNCHANGED <<freed_fields, matches, match_counter, consensus_in, consensus_out>>

\* Field.__del__ -> Runtime.free_field -> FieldManager.free_field(ordered=False)
FreeField(s, f) ==
    /\ UNCHANGED <<rt_vars, fc_vars, lib_vars>>
    /\ fm_pc[s] = "idle"
    /\ f \in held[s]
    /\ held' = [held EXCEPT ![s] = @ \ {f}]
    /\ LET lists == free_field([free_fields |-> free_fields[s],
                                freed_fields |-> freed_fields[s]], f, FALSE)
       IN  /\ free_fields' = [free_fields EXCEPT ![s] = lists.free_fields]
           /\ freed_fields' = [freed_fields EXCEPT ![s] = lists.freed_fields]
    /\ UNCHANGED <<matches, match_counter, fm_pc, top_regions, active_fields,
                   returned, free_after, consensus_in, consensus_out>>

\* the engine completes the next collective once every shard has entered it:
\* the intersection of the shards' lists, in one order for all shards
ConsensusMatch ==
    /\ UNCHANGED <<rt_vars, fc_vars, lib_vars>>
    /\ \A s \in Shards : Len(consensus_in[s]) > Len(consensus_out)
    /\ LET k == Len(consensus_out) + 1
           common == {e \in Range(consensus_in[1][k]) :
                          \A s \in Shards : e \in Range(consensus_in[s][k])}
       IN  \E output \in Perms(common) : consensus_out' = Append(consensus_out, output)
    /\ UNCHANGED <<free_fields, freed_fields, matches, match_counter, fm_pc, top_regions,
                   active_fields, held, returned, free_after, consensus_in>>

(***************************************************************************)
(* EqClass (solver.py 21-94)                                               *)
(* A Python dict is a function on the set of its keys.  The sets held in   *)
(* _classes are mutable objects: copy() and union() copy the dicts only,   *)
(* so two EqClass objects can refer to one set.  eq_heap holds the sets.   *)
(***************************************************************************)
MaxEqCalls == 3
EqStores == {"a", "b", "c", "d"}
EqNames == {"A", "B"}

NoDict == [k \in {} |-> 0]
DictSet(d, k, v) == [x \in DOMAIN d \cup {k} |-> IF x = k THEN v ELSE d[x]]

\* lines 22-27
EqClass == [_class_ids |-> NoDict, _next_class_id |-> 0, _classes |-> NoDict]

\* lines 29-31
empty(self) == self._next_class_id = 0

\* lines 33-39; line 36 evaluates self._next_class_id + 1 and discards it
_add(w, o, store1, store2) ==
    LET self == w.obj[o]
        cls == Len(w.heap) + 1
        cls_id == self._next_class_id
    IN  [obj |-> [w.obj EXCEPT ![o] =
                     [_class_ids |-> DictSet(DictSet(self._class_ids, store1, cls_id),
                                             store2, cls_id),
                      _next_class_id |-> self._next_class_id,
                      _classes |-> DictSet(self._classes, cls_id, cls)]],
         heap |-> Append(w.heap, {store1, store2})]

\* lines 41-45
_update(w, o, store1, store2) ==
    LET self == w.obj[o]
        cls_id == self._class_ids[store1]
        cls == self._classes[cls_id]
    IN  [obj |-> [w.obj EXCEPT ![o]._class_ids = DictSet(@, store2, cls_id)],
         heap |-> [w.heap EXCEPT ![cls] = @ \cup {store2}]]

\* lines 47-52
_merge(w, o, store1, store2) ==
    LET self == w.obj[o]
        cls_id1 == self._class_ids[store1]
        cls_id2 == self._class_ids[store2]
        cls == Len(w.heap) + 1
    IN  [obj |-> [w.obj EXCEPT ![o]._classes = DictSet(DictSet(@, cls_id1, cls), cls_id2, cls)],
         heap |-> Append(w.heap, w.heap[self._classes[cls_id1]]
                                     \cup w.heap[self._classes[cls_id2]])]

\* lines 54-68
record(w, o, store1, store2) ==
    LET found1 == store1 \in DOMAIN w.obj[o]._class_ids
        found2 == store2 \in DOMAIN w.obj[o]._class_ids
    IN  IF ~found1 /\ ~found2 THEN _add(w, o, store1, store2)
        ELSE IF found1 THEN _update(w, o, store1, store2)
        ELSE IF found2 THEN _update(w, o, store2, store1)
        ELSE _merge(w, o, store1, store2)

\* lines 70-74: the dicts are copied, the sets they hold are not
copy(w, o, src) ==
    [w EXCEPT !.obj[o] = [_class_ids |-> w.obj[src]._class_ids,
                          _next_class_id |-> 0,
                          _classes |-> w.obj[src]._classes]]

\* lines 81-85: one class of other; pop() takes some element of the copy
RECURSIVE union_records(_, _, _, _)
union_records(w, o, store1, cls) ==
    IF cls = {} THEN w
    ELSE LET store2 == CHOOSE x \in cls : TRUE
         IN  union_records(record(w, o, store1, store2), o, store1, cls \ {store2})

\* lines 80-85: the loop over other._classes.values()
RECURSIVE union_classes(_, _, _)
union_classes(w, o, ids) ==
    IF ids = {} THEN w
    ELSE LET id == CHOOSE x \in ids : TRUE
             cls == w.heap[id]
             store1 == CHOOSE x \in cls : TRUE
         IN  union_classes(union_records(w, o, store1, cls \ {store1}), o, ids \ {id})

\* lines 76-85
union(w, o, other) ==
    IF empty(w.obj[o])
    THEN [w EXCEPT !.obj[o]._class_ids = w.obj[other]._class_ids,
                   !.obj[o]._classes = w.obj[other]._classes]
    ELSE union_classes(w, o, {w.obj[other]._classes[k] : k \in DOMAIN w.obj[other]._classes})

\* lines 87-94
find(w, o, store) ==
    IF store \notin DOMAIN w.obj[o]._class_ids
    THEN {store}
    ELSE w.heap[w.obj[o]._classes[w.obj[o]._class_ids[store]]]

EqWorld == [obj |-> eq_obj, heap |-> eq_heap]
FindAll(w, o) == [x \in EqStores |-> find(w, o, x)]
NoCall == [op |-> "none", self |-> "A", store1 |-> "a", store2 |-> "a", other |-> "A",
           before |-> [o \in EqNames |-> [x \in EqStores |-> {x}]]]

EqInit ==
    /\ eq_obj = [o \in EqNames |-> EqClass]
    /\ eq_heap = <<>>
    /\ eq_log = [o \in EqNames |-> {}]
    /\ eq_pure = [o \in EqNames |-> TRUE]
    /\ eq_last = NoCall
    /\ eq_n = 0

EqSet(w, call) ==
    /\ UNCHANGED eq_others
    /\ eq_n < MaxEqCalls
    /\ eq_n' = eq_n + 1
    /\ eq_obj' = w.obj
    /\ eq_heap' = w.heap
    /\ eq_last' = [call EXCEPT !.before = [o \in EqNames |-> FindAll(EqWorld, o)]]

\* o.record(store1, store2), as add_alignment calls it (operation.py 115)
Record(o, store1, store2) ==
    /\ EqSet(record(EqWorld, o, store1, store2),
             [NoCall EXCEPT !.op = "record", !.self = o, !.store1 = store1, !.store2 = store2])
    /\ eq_log' = [eq_log EXCEPT ![o] = @ \cup {<<store1, store2>>}]
    /\ UNCHANGED eq_pure

\* o.union(other), as partition_stores calls it (solver.py 142)
Union(o, other) ==
    /\ o # other
    /\ EqSet(union(EqWorld, o, other), [NoCall EXCEPT !.op = "union", !.self = o, !.other = other])
    /\ eq_log' = [eq_log EXCEPT ![o] = @ \cup eq_log[other]]
    /\ eq_pure' = [eq_pure EXCEPT ![o] = FALSE]

\* o = other.copy()
Copy(o, other) ==
    /\ o # other
    /\ EqSet(copy(EqWorld, o, other), [NoCall EXCEPT !.op = "copy", !.self = o, !.other = other])
    /\ eq_log' = [eq_log EXCEPT ![o] = eq_log[other]]
    /\ eq_pure' = [eq_pure EXCEPT ![o] = FALSE]


(***************************************************************************)
(* Partitioner.partition_stores (solver.py 130-196)                        *)
(* The worklist `stores` is a Python set: which element pop() hands out is *)
(* not fixed by the program, so each iteration may take any element.  Two  *)
(* shards run the function on the same ops.                                *)
(***************************************************************************)
MaxPtOps == 2

\* the stores' attributes read by partition_stores: scalar, unbound and the
\* partition find_key_partition() answers with
PtStores == {"x", "y", "z", "w", "s", "u", "v"}
scalar(store) == store = "s"
unbound(store) == store \in {"u", "v"}
NoPartition == [kind |-> "NoPartition", color_shape |-> <<>>]
Tiling(color_shape) == [kind |-> "Tiling", color_shape |-> color_shape]
NonePart == [kind |-> "None", color_shape |-> <<>>]
find_key_partition(store) ==
    CASE store = "x" -> Tiling(<<2, 2>>)
      [] store = "y" -> Tiling(<<4, 1>>)
      [] store = "w" -> Tiling(<<2, 2>>)
      [] OTHER -> NoPartition

\* the launch shapes: None, or a tuple of extents
NoneLaunch == [isNone |-> TRUE, extents |-> <<>>]
RECURSIVE volume(_)
volume(extents) == IF extents = <<>> THEN 1 ELSE Head(extents) * volume(Tail(extents))
\* Partition.color_shape: None for NoPartition
color_shape(part) ==
    IF part.kind = "Tiling" THEN [isNone |-> FALSE, extents |-> part.color_shape]
    ELSE NoneLaunch

\* an op as partition_stores reads it: get_all_stores(), the pairs handed to
\* add_alignment in call order, and broadcasts
PtOp(stores, alignments, broadcasts) ==
    [stores |-> stores, alignments |-> alignments, broadcasts |-> broadcasts]
PtOpPool ==
    { PtOp({"x", "y"}, << <<"x", "y">> >>, {}),
      PtOp({"x", "y", "z", "w"}, << <<"x", "y">>, <<"z", "w">> >>, {}),
      PtOp({"x", "z"}, <<>>, {}),
      PtOp({"x", "y"}, <<>>, {}),
      PtOp({"x", "s"}, <<>>, {}),
      PtOp({"x", "u", "v"}, << <<"u", "v">> >>, {}),
      PtOp({"x", "w"}, << <<"x", "w">> >>, {"w"}),
      PtOp({}, <<>>, {}) }

\* op.constraints after the op's add_alignment calls (operation.py 107-115)
RECURSIVE op_constraints(_, _, _)
op_constraints(w, o, alignments) ==
    IF alignments = <<>> THEN w
    ELSE op_constraints(record(w, o, Head(alignments)[1], Head(alignments)[2]),
                        o, Tail(alignments))

\* the EqClass objects of one call: object 0 is the local `constraints`,
\* object i is ops[i].constraints
RECURSIVE PtWorld(_, _, _)
PtWorld(ops, i, w) ==
    IF i > Len(ops) THEN w
    ELSE PtWorld(ops, i + 1, op_constraints(w, i, ops[i].alignments))

\* lines 140-143: constraints.union(op.constraints), op by op
RECURSIVE union_ops(_, _, _)
union_ops(ops, i, w) ==
    IF i > Len(ops) THEN w ELSE union_ops(ops, i + 1, union(w, 0, i))

DictSetAll(d, keys, v) == [x \in DOMAIN d \cup keys |-> IF x \in keys THEN v ELSE d[x]]

PtIdleRun == [pc |-> "start", stores |-> {}, w |-> [obj |-> <<>>, heap |-> <<>>],
              broadcasts |-> {}, partitions |-> NoDict, fspaces |-> NoDict,
              prev_part |-> NonePart, must_be_1d_launch |-> FALSE, n_fspaces |-> 0,
              launch_shape |-> NoneLaunch]

\* lines 146-156: the must_be_single branch; one field space per unbound store
RECURSIVE single_fspaces(_, _, _)
single_fspaces(run, todo, n) ==
    IF todo = {} THEN [run EXCEPT !.n_fspaces = n]
    ELSE LET store == CHOOSE x \in todo : TRUE
             cls == find(run.w, 0, store)
         IN  IF \E to_align \in cls : ~unbound(to_align)
             THEN [run EXCEPT !.pc = "AssertionError"]
             ELSE single_fspaces([run EXCEPT !.fspaces = DictSetAll(@, cls, n + 1)],
                                 todo \ {store}, n + 1)

\* lines 137-161: everything before the while loop
partition_stores_begin(ops, must_be_single) ==
    LET stores == UNION {ops[i].stores : i \in DOMAIN ops}
        fresh == [obj |-> [o \in 0..Len(ops) |-> EqClass], heap |-> <<>>]
        w == union_ops(ops, 1, PtWorld(ops, 1, fresh))
        run == [PtIdleRun EXCEPT !.w = w,
                                 !.broadcasts = UNION {ops[i].broadcasts : i \in DOMAIN ops}]
    IN  IF must_be_single \/ stores = {}
        THEN single_fspaces([run EXCEPT !.pc = "done",
                                        !.partitions = DictSetAll(NoDict, stores, NoPartition)],
                            {x \in stores : unbound(x)}, 0)
        ELSE [run EXCEPT !.pc = "loop", !.stores = stores,
                         !.must_be_1d_launch = \E x \in stores : unbound(x)]

\* lines 164-189: one iteration of the while loop, with `store` the element popped
partition_stores_iteration(run, store) ==
    LET stores == run.stores \ {store}
        cls == find(run.w, 0, store)
    IN  IF scalar(store) \/ store \in run.broadcasts
        THEN [run EXCEPT !.stores = stores, !.partitions = DictSet(@, store, NoPartition)]
        ELSE IF unbound(store)
        THEN IF \E to_align \in cls : ~unbound(to_align)
             THEN [run EXCEPT !.stores = stores, !.pc = "AssertionError"]
             ELSE [run EXCEPT !.stores = stores,
                              !.n_fspaces = @ + 1,
                              !.partitions = DictSetAll(@, cls, NoPartition),
                              !.fspaces = DictSetAll(@, cls, run.n_fspaces + 1)]
        ELSE LET partition == IF run.prev_part.kind = "NoPartition"
                              THEN run.prev_part
                              ELSE find_key_partition(store)
             IN  [run EXCEPT !.stores = stores \ cls,
                             !.partitions =
                                 DictSetAll(DictSetAll(@, {t \in cls : ~scalar(t)}, partition),
                                            {t \in cls : scalar(t)}, NoPartition),
                             !.prev_part = partition]

\* lines 191-196
partition_stores_end(run) ==
    LET shape == IF run.prev_part.kind = "None" THEN NoneLaunch
                 ELSE color_shape(run.prev_part)
    IN  [run EXCEPT !.pc = "done",
                    !.launch_shape = IF run.must_be_1d_launch /\ ~shape.isNone
                                     THEN [isNone |-> FALSE, extents |-> <<volume(shape.extents)>>]
                                     ELSE shape]

PtInit ==
    /\ pt_ops \in SeqsUpTo(PtOpPool, MaxPtOps)
    /\ pt_single \in BOOLEAN
    /\ pt_run = [sh \in Shards |-> PtIdleRun]

PtIdle ==
    /\ pt_ops = <<>>
    /\ pt_single = FALSE
    /\ pt_run = [sh \in Shards |-> PtIdleRun]

PtSet(sh, run) ==
    /\ pt_run' = [pt_run EXCEPT ![sh] = run]
    /\ UNCHANGED <<pt_ops, pt_single>>
    /\ UNCHANGED pt_others

PtBegin(sh) ==
    /\ pt_run[sh].pc = "start"
    /\ PtSet(sh, partition_stores_begin(pt_ops, pt_single))

PtPop(sh, store) ==
    /\ pt_run[sh].pc = "loop"
    /\ store \in pt_run[sh].stores
    /\ PtSet(sh, partition_stores_iteration(pt_run[sh], store))

PtReturn(sh) ==
    /\ pt_run[sh].pc = "loop"
    /\ pt_run[sh].stores = {}
    /\ PtSet(sh, partition_stores_end(pt_run[sh]))


(***************************************************************************)
(* Attachment and AttachmentManager (runtime.py 323-482)                   *)
(* A buffer is <<base pointer, byte length>>.  An allocation is a plain    *)
(* buffer (a memoryview) or the ordered shard-local buffers of a           *)
(* multi-buffer allocation.  A region field is a number; the weak          *)
(* reference to it resolves while the number is in at_alive.               *)
(***************************************************************************)
MaxAttachCalls == 2

Bufs == { <<0, 2>>, <<1, 2>>, <<2, 2>>, <<1, 0>> }
Plain(buf) == [memoryview |-> TRUE, shard_local_buffers |-> <<buf>>]
Multi(bufs) == [memoryview |-> FALSE, shard_local_buffers |-> bufs]
Allocs ==
    {Plain(buf) : buf \in Bufs}
        \cup { Multi(<< <<0, 2>>, <<2, 2>> >>), Multi(<< <<2, 2>>, <<1, 2>> >>) }

NoRegionField == 0

\* lines 373-377
attachment_key(buf) == <<buf[1], buf[2]>>

\* lines 324-333
Attachment(ptr, extent, shareable, rf) ==
    [ptr |-> ptr, extent |-> extent, end |-> ptr + extent - 1,
     shareable |-> shareable, _region_field |-> rf]

\* faulty variant, for sensitivity checks: only equal base pointers count
overlaps_same_ptr(self, other) == self.ptr = other.ptr

\* lines 335-336
overlaps(self, other) == ~(self.end < other.ptr \/ other.end < self.ptr)

\* lines 338-340: the weak reference, None once the region field is collected
region_field(attachment, alive) ==
    IF attachment._region_field \in alive THEN attachment._region_field ELSE NoRegionField

DictDel(d, k) == [x \in DOMAIN d \ {k} |-> d[x]]

\* lines 379-382
has_attachment(attachments, alive, buf) ==
    /\ attachment_key(buf) \in DOMAIN attachments
    /\ region_field(attachments[attachment_key(buf)], alive) # NoRegionField

\* lines 384-395; result: the map afterwards and the value returned
reuse_existing_attachment(attachments, alive, buf) ==
    LET key == attachment_key(buf)
    IN  IF key \notin DOMAIN attachments
        THEN [attachments |-> attachments, result |-> NoRegionField]
        ELSE LET rf == region_field(attachments[key], alive)
             IN  IF rf = NoRegionField
                 THEN [attachments |-> DictDel(attachments, key), result |-> NoRegionField]
                 ELSE [attachments |-> attachments,
                       result |-> IF attachments[key].shareable THEN rf ELSE NoRegionField]

\* faulty variant, for sensitivity checks: a live entry under the key is replaced
_add_attachment_replaces(attachments, alive, buf, shareable, rf) ==
    [attachments |-> DictSet(attachments, attachment_key(buf),
                             Attachment(buf[1], buf[2], shareable, rf)),
     error |-> ""]

\* lines 397-414; result: the map afterwards and the error raised ("" if none)
_add_attachment(attachments, alive, buf, shareable, rf) ==
    LET key == attachment_key(buf)
        found == key \in DOMAIN attachments
    IN  IF found /\ region_field(attachments[key], alive) # NoRegionField
        THEN [attachments |-> attachments, error |-> "DuplicateAttachment"]
        ELSE LET rest == IF found THEN DictDel(attachments, key) ELSE attachments
                 attachment == Attachment(key[1], key[2], shareable, rf)
             IN  IF \E k \in DOMAIN rest : overlaps(rest[k], attachment)
                 THEN [attachments |-> rest, error |-> "AliasedAttachment"]
                 ELSE [attachments |-> DictSet(rest, key, attachment), error |-> ""]

\* lines 420-421: the loop over alloc.shard_local_buffers.values()
RECURSIVE add_buffers(_, _, _, _, _)
add_buffers(attachments, alive, bufs, shareable, rf) ==
    IF bufs = <<>> THEN [attachments |-> attachments, error |-> ""]
    ELSE LET r == _add_attachment(attachments, alive, Head(bufs), shareable, rf)
         IN  IF r.error # "" THEN r
             ELSE add_buffers(r.attachments, alive, Tail(bufs), shareable, rf)

\* lines 416-421
attach_external_allocation(attachments, alive, alloc, rf) ==
    add_buffers(attachments, alive, alloc.shard_local_buffers, alloc.memoryview, rf)

\* lines 423-434: _remove_attachment for every buffer of the allocation
RECURSIVE _remove_allocation(_, _)
_remove_allocation(attachments, bufs) ==
    IF bufs = <<>> THEN [attachments |-> attachments, error |-> ""]
    ELSE IF attachment_key(Head(bufs)) \notin DOMAIN attachments
    THEN [attachments |-> attachments, error |-> "Unable to find attachment to remove"]
    ELSE _remove_allocation(DictDel(attachments, attachment_key(Head(bufs))), Tail(bufs))

\* the AttachmentManager fields that a dispatch reads or writes, with the
\* operations launched by the call under way and the error raised ("" if none)
AtState ==
    [_attachments |-> _attachments, _deferred_detachments |-> _deferred_detachments,
     launched |-> <<>>, error |-> ""]

\* runtime.py 1176-1179: op.launch(legion_runtime, legion_context)
launch(am, op) == [am EXCEPT !.launched = Append(@, op)]

RECURSIVE dispatch(_, _)

\* lines 436-454, up to the launch of the detach; the future it returns is
\* accounted for by the action that makes the call
detach_external_allocation(am, alloc, detach, defer, previously_deferred) ==
    LET r == IF previously_deferred
             THEN [attachments |-> am._attachments, error |-> ""]
             ELSE _remove_allocation(am._attachments, alloc.shard_local_buffers)
        removed == [am EXCEPT !._attachments = r.attachments, !.error = r.error]
    IN  IF r.error # "" THEN removed
        ELSE IF defer
        THEN [removed EXCEPT !._deferred_detachments = Append(@, <<alloc, detach>>)]
        ELSE dispatch(removed, detach)

\* lines 470-473: the loop over the detachments taken from the list
RECURSIVE perform_loop(_, _)
perform_loop(am, detachments) ==
    IF detachments = <<>> \/ am.error # "" THEN am
    ELSE perform_loop(detach_external_allocation(am, Head(detachments)[1],
                                                 Head(detachments)[2], FALSE, TRUE),
                      Tail(detachments))

\* lines 467-473
perform_detachments(am) ==
    perform_loop([am EXCEPT !._deferred_detachments = <<>>], am._deferred_detachments)

\* faulty variant, for sensitivity checks: the operation is launched before
\* the deferred detachments are performed
dispatch_op_first(am, op) == perform_detachments(launch(am, op))

\* runtime.py 1173-1179: Runtime.dispatch; prune_detachments only drops
\* futures, which the calling action accounts for
dispatch(am, op) == launch(perform_detachments(am), op)

\* the detach operation a detach call for alloc is made with: it names the
\* region field that the allocation's first buffer is attached to
detach_of(attachments, alloc) ==
    LET key == attachment_key(alloc.shard_local_buffers[1])
    IN  <<"detach", key,
          IF key \in DOMAIN attachments THEN attachments[key]._region_field
          ELSE NoRegionField>>

\* the detach operations of the entries of a deferred list, in list order
Detaches(deferred) == [k \in DOMAIN deferred |-> deferred[k][2]]

AtCall(op, alloc, error) ==
    [op |-> op, alloc |-> alloc, error |-> error, before |-> _attachments,
     alive |-> at_alive, rf |-> at_next_rf + 1, deferred |-> _deferred_detachments,
     launched |-> <<>>]

AtInit ==
    /\ _attachments = NoDict
    /\ _deferred_detachments = <<>>
    /\ _pending_detachments = 0
    /\ at_alive = {}
    /\ at_next_rf = 0
    /\ at_last = [op |-> "none", alloc |-> Plain(<<0, 2>>), error |-> "", before |-> NoDict,
                  alive |-> {}, rf |-> 0, deferred |-> <<>>, launched |-> <<>>]

AtCalls == at_next_rf < MaxAttachCalls

\* attach_external_allocation(alloc, region_field) with a region field made for it
Attach(alloc) ==
    LET rf == at_next_rf + 1
        r == attach_external_allocation(_attachments, at_alive, alloc, rf)
    IN  /\ AtCalls
        /\ _attachments' = r.attachments
        /\ at_alive' = at_alive \cup {rf}
        /\ at_next_rf' = rf
        /\ at_last' = AtCall("attach", alloc, r.error)
        /\ UNCHANGED <<_deferred_detachments, _pending_detachments>>
        /\ UNCHANGED at_others

\* lines 436-454: detach_external_allocation(alloc, detach, defer).  A detach
\* that is not deferred goes through Runtime.dispatch, which first performs
\* the deferred detachments and prunes the pending ones: `pend` of the
\* futures tracked before the launch are still tracked after it, and the
\* future of this detach is ready at once or is kept as pending
Detach(alloc, defer, ready, pend) ==
    /\ \E i \in DOMAIN alloc.shard_local_buffers :
           attachment_key(alloc.shard_local_buffers[i]) \in DOMAIN _attachments
    /\ IF defer THEN pend = 0 ELSE pend <= _pending_detachments + Len(_deferred_detachments)
    /\ \E am \in {detach_external_allocation(AtState, alloc, detach_of(_attachments, alloc),
                                             defer, FALSE)} :
           /\ _attachments' = am._attachments
           /\ _deferred_detachments' = am._deferred_detachments
           /\ at_last' = [AtCall("detach", alloc, am.error) EXCEPT !.launched = am.launched]
           /\ IF am.error # "" \/ defer
              THEN pend = 0 /\ UNCHANGED _pending_detachments
              ELSE _pending_detachments' = pend + (IF ready THEN 0 ELSE 1)
    /\ UNCHANGED <<at_alive, at_next_rf>>
    /\ UNCHANGED at_others

\* runtime.py 1173-1179: Runtime.dispatch(op) for an operation that is not a
\* detach; `pend` futures are still tracked when op is launched
Dispatch(pend) ==
    /\ pend <= _pending_detachments + Len(_deferred_detachments)
    /\ \E am \in {dispatch(AtState, <<"op">>)} :
           /\ _attachments' = am._attachments
           /\ _deferred_detachments' = am._deferred_detachments
           /\ at_last' = [AtCall("dispatch", Plain(<<0, 2>>), am.error)
                              EXCEPT !.launched = am.launched]
    /\ _pending_detachments' = pend
    /\ UNCHANGED <<at_alive, at_next_rf>>
    /\ UNCHANGED at_others

\* reuse_existing_attachment(buf)
Reuse(buf) ==
    /\ attachment_key(buf) \in DOMAIN _attachments
    /\ _attachments' = reuse_existing_attachment(_attachments, at_alive, buf).attachments
    /\ at_last' = AtCall("reuse", Plain(buf), "")
    /\ UNCHANGED <<_deferred_detachments, _pending_detachments, at_alive, at_next_rf>>
    /\ UNCHANGED at_others

\* lines 467-473: perform_detachments called on its own (destroy, line 358);
\* every detach it performs goes through Runtime.dispatch, and `pend` futures
\* are tracked afterwards
PerformDetachments(pend) ==
    /\ _deferred_detachments # <<>>
    /\ pend <= _pending_detachments + Len(_deferred_detachments)
    /\ \E am \in {perform_detachments(AtState)} :
           /\ _attachments' = am._attachments
           /\ _deferred_detachments' = am._deferred_detachments
           /\ at_last' = [AtCall("perform", Plain(<<0, 2>>), am.error)
                              EXCEPT !.launched = am.launched]
    /\ _pending_detachments' = pend
    /\ UNCHANGED <<at_alive, at_next_rf>>
    /\ UNCHANGED at_others

\* lines 475-481: prune_detachments drops the futures that are ready by now
PruneDetachments(ready) ==
    /\ _pending_detachments > 0
    /\ ready <= _pending_detachments
    /\ _pending_detachments' = _pending_detachments - ready
    /\ UNCHANGED <<_attachments, _deferred_detachments, at_alive, at_next_rf, at_last>>
    /\ UNCHANGED at_others

\* a region field loses its last strong reference and is collected
Collect(rf) ==
    /\ rf \in at_alive
    /\ at_alive' = at_alive \ {rf}
    /\ UNCHANGED <<_attachments, _deferred_detachments, _pending_detachments, at_next_rf,
                   at_last>>
    /\ UNCHANGED at_others

(***************************************************************************)
(* AttachmentManager.destroy (runtime.py 356-371)                          *)
(* The manager is taken at shutdown: each of MaxDestroyAllocs allocations  *)
(* is attached, deferred, pending or absent.  gc.collect() runs the        *)
(* finalizer of every unreachable region field, and the finalizer of an    *)
(* attached one defers its detachment.  Region fields become unreachable   *)
(* before destroy or when the engine makes progress on the detaches.       *)
(***************************************************************************)
MaxDestroyAllocs == 3

DsAllocs == 1..MaxDestroyAllocs
DsAlloc(i) == Plain(<<2 * (i - 1), 2>>)
DsKey(i) == attachment_key(DsAlloc(i).shard_local_buffers[1])
DsDetach(i) == <<"detach", DsKey(i), i>>
DsStates == {"none", "attached", "late", "garbage", "deferred", "pending", "ready"}

\* gc.collect() (lines 357, 362, 365, 368): the finalizers of the unreachable
\* region fields, in the order `order`, each deferring its detachment
RECURSIVE gc_collect(_, _)
gc_collect(am, order) ==
    IF order = <<>> THEN am
    ELSE gc_collect(detach_external_allocation(am, DsAlloc(Head(order)),
                                               detach_of(am._attachments, DsAlloc(Head(order))),
                                               TRUE, FALSE),
                    Tail(order))

\* faulty variant, for sensitivity checks: every tracked future is dropped
prune_detachments_all(pending, ready) == {}

\* lines 475-481
prune_detachments(pending, ready) == pending \ ready

DsIdle ==
    /\ ds_pc = "idle"
    /\ ds_pending = {}
    /\ ds_ready = {}
    /\ ds_garbage = {}
    /\ ds_late = {}
    /\ ds_deferred = {}
    /\ ds_launched = <<>>

\* the manager when Runtime.destroy reaches line 1159
DsInit ==
    \E st \in [DsAllocs -> DsStates] :
        \E order \in Perms({i \in DsAllocs : st[i] = "deferred"}) :
            LET kept == {i \in DsAllocs : st[i] \in {"attached", "late", "garbage"}}
            IN  /\ _attachments =
                       [k \in {DsKey(i) : i \in kept} |->
                           Attachment(k[1], k[2], TRUE,
                                      CHOOSE i \in kept : DsKey(i) = k)]
                /\ _deferred_detachments =
                       [k \in DOMAIN order |-> <<DsAlloc(order[k]), DsDetach(order[k])>>]
                /\ ds_pending = {DsDetach(i) : i \in {j \in DsAllocs : st[j] \in {"pending", "ready"}}}
                /\ ds_ready = {DsDetach(i) : i \in {j \in DsAllocs : st[j] = "ready"}}
                /\ _pending_detachments =
                       Cardinality({j \in DsAllocs : st[j] \in {"pending", "ready"}})
                /\ at_alive = kept
                /\ at_next_rf = MaxDestroyAllocs
                /\ at_last = [op |-> "none", alloc |-> Plain(<<0, 2>>), error |-> "",
                              before |-> NoDict, alive |-> {}, rf |-> 0, deferred |-> <<>>,
                              launched |-> <<>>]
                /\ ds_garbage = {i \in DsAllocs : st[i] = "garbage"}
                /\ ds_late = {i \in DsAllocs : st[i] = "late"}
                /\ ds_deferred = {DsDetach(order[k]) : k \in DOMAIN order}
                /\ ds_launched = <<>>
                /\ ds_pc = "start"

\* gc.collect() inside destroy: the finalizers of `garbage` run in some order
DsCollect(garbage) ==
    \E order \in Perms(garbage) :
        \E am \in {gc_collect(AtState, order)} :
            /\ _attachments' = am._attachments
            /\ _deferred_detachments' = am._deferred_detachments
            /\ at_alive' = at_alive \ garbage
            /\ ds_garbage' = {}
            /\ ds_deferred' = ds_deferred \cup Range(Detaches(am._deferred_detachments))

\* line 357
DestroyBegin ==
    /\ ds_pc = "start"
    /\ DsCollect(ds_garbage)
    /\ ds_pc' = "drain"
    /\ UNCHANGED <<_pending_detachments, at_next_rf, at_last, ds_pending, ds_ready, ds_late,
                   ds_launched>>
    /\ UNCHANGED ds_at_others

\* lines 358-359: the loop test and perform_detachments; the futures of
\* `unready` of the detaches are not ready when they are launched
DrainPerform(unready) ==
    /\ ds_pc = "drain"
    /\ _deferred_detachments # <<>>
    /\ unready \subseteq Range(Detaches(_deferred_detachments))
    /\ \E am \in {perform_detachments(AtState)} :
           /\ _attachments' = am._attachments
           /\ _deferred_detachments' = am._deferred_detachments
           /\ ds_launched' = Append(ds_launched, am.launched)
    /\ ds_pending' = prune_detachments(ds_pending, ds_ready) \cup unready
    /\ ds_ready' = {}
    /\ _pending_detachments' = Cardinality(ds_pending')
    /\ ds_pc' = "progress"
    /\ UNCHANGED <<at_alive, at_next_rf, at_last, ds_garbage, ds_late, ds_deferred>>
    /\ UNCHANGED ds_at_others

\* lines 361-362: the engine makes progress, which makes the region fields
\* of `freed` unreachable, and gc.collect()
DrainProgress(freed) ==
    /\ ds_pc = "progress"
    /\ freed \subseteq ds_late
    /\ DsCollect(ds_garbage \cup freed)
    /\ ds_late' = ds_late \ freed
    /\ ds_pc' = "drain"
    /\ UNCHANGED <<_pending_detachments, at_next_rf, at_last, ds_pending, ds_ready,
                   ds_launched>>
    /\ UNCHANGED ds_at_others

\* lines 358, 365: the loop is left with the list empty, and gc.collect()
DrainExit ==
    /\ ds_pc = "drain"
    /\ _deferred_detachments = <<>>
    /\ DsCollect(ds_garbage)
    /\ ds_pc' = "await"
    /\ UNCHANGED <<_pending_detachments, at_next_rf, at_last, ds_pending, ds_ready, ds_late,
                   ds_launched>>
    /\ UNCHANGED ds_at_others

\* lines 366-368: the loop test, prune_detachments and gc.collect()
AwaitPrune ==
    /\ ds_pc = "await"
    /\ ds_pending # {}
    /\ ds_pending' = prune_detachments(ds_pending, ds_ready)
    /\ ds_ready' = {}
    /\ _pending_detachments' = Cardinality(ds_pending')
    /\ DsCollect(ds_garbage)
    /\ UNCHANGED <<at_next_rf, at_last, ds_pc, ds_late, ds_launched>>
    /\ UNCHANGED ds_at_others

\* lines 366, 371: the loop is left and the map is dropped
AwaitExit ==
    /\ ds_pc = "await"
    /\ ds_pending = {}
    /\ _attachments' = NoDict
    /\ ds_pc' = "done"
    /\ UNCHANGED <<_deferred_detachments, _pending_detachments, at_alive, at_next_rf,
                   at_last, ds_pending, ds_ready, ds_garbage, ds_late, ds_deferred,
                   ds_launched>>
    /\ UNCHANGED ds_at_others

\* the engine completes a detach: future.is_ready() (lines 452, 478) turns true
FutureReady(future) ==
    /\ future \in ds_pending \ ds_ready
    /\ ds_ready' = ds_ready \cup {future}
    /\ UNCHANGED <<at_vars, ds_pc, ds_pending, ds_garbage, ds_late, ds_deferred, ds_launched>>
    /\ UNCHANGED ds_at_others


(***************************************************************************)
(* PartitionManager.compute_launch_shape (runtime.py 484-692)              *)
(* Tuples are sequences; dimension d of the code is position d + 1 here.   *)
(* Only `restriction != RESTRICTED` is read, so two restriction values are *)
(* enough.                                                                 *)
(***************************************************************************)
MaxNdim == 3
MaxLaunchCalls == 3
Extents == {1, 2, 3, 64}
PieceCounts == {1, 2, 3, 4, 6, 8}
ShardVolumes == {1, 8}
Restrictions == {"ALLOWED", "RESTRICTED"}

TuplesUpTo(S, n) == UNION {[1..k -> S] : k \in 1..n}
LaunchInputs ==
    UNION {{<<shape, restrictions>> : restrictions \in [1..Len(shape) -> Restrictions]} :
               shape \in TuplesUpTo(Extents, MaxNdim)}
MemoPool ==
    { << <<64, 2>>, <<"ALLOWED", "ALLOWED">> >>,
      << <<2, 64>>, <<"ALLOWED", "ALLOWED">> >>,
      << <<64, 3, 2>>, <<"ALLOWED", "RESTRICTED", "ALLOWED">> >>,
      << <<2, 2, 2>>, <<"ALLOWED", "ALLOWED", "ALLOWED">> >>,
      << <<1, 3>>, <<"ALLOWED", "ALLOWED">> >>,
      << <<3>>, <<"ALLOWED">> >> }

\* lines 497-519: the prime factors of num_pieces, largest first
RECURSIVE factors_of(_, _)
factors_of(pieces, primes) ==
    IF primes = <<>> THEN <<>>
    ELSE IF pieces % Head(primes) = 0
    THEN <<Head(primes)>> \o factors_of(pieces \div Head(primes), primes)
    ELSE factors_of(pieces, Tail(primes))
RECURSIVE Reverse(_)
Reverse(seq) == IF seq = <<>> THEN <<>> ELSE Append(Reverse(Tail(seq)), Head(seq))
_piece_factors(num_pieces) == Reverse(factors_of(num_pieces, <<2, 3, 5, 7, 11>>))

Min(a, b) == IF a <= b THEN a ELSE b
Max(a, b) == IF a >= b THEN a ELSE b
MaxOf(seq) == CHOOSE v \in Range(seq) : \A u \in Range(seq) : u <= v
\* list.index(v): the first position that holds v
index(seq, v) == CHOOSE i \in DOMAIN seq : seq[i] = v /\ \A j \in 1..(i - 1) : seq[j] # v

\* lines 526-529: the extents of the dimensions that are not RESTRICTED
RECURSIVE to_partition(_, _)
to_partition(shape, restrictions) ==
    IF shape = <<>> THEN <<>>
    ELSE (IF Head(restrictions) # "RESTRICTED" THEN <<Head(shape)>> ELSE <<>>)
             \o to_partition(Tail(shape), Tail(restrictions))

\* lines 534-541: launch_shape laid back over the dimensions, 1 where RESTRICTED
RECURSIVE project_restricted(_, _)
project_restricted(launch_shape, restrictions) ==
    IF restrictions = <<>> THEN <<>>
    ELSE IF Head(restrictions) # "RESTRICTED"
    THEN <<Head(launch_shape)>> \o project_restricted(Tail(launch_shape), Tail(restrictions))
    ELSE <<1>> \o project_restricted(launch_shape, Tail(restrictions))

\* lines 559-568: temp_shape and temp_dims
temp_dims(shape) == SelectSeq([d \in DOMAIN shape |-> d], LAMBDA d : shape[d] # 1)
temp_shape(shape) == SelectSeq(shape, LAMBDA ext : ext # 1)

\* faulty variant, for sensitivity checks: the extent is taken as it is
launch_1d_unclamped(ext, max_pieces) == <<ext>>

\* line 594
launch_1d(ext, max_pieces) == <<Min(ext, max_pieces)>>

\* line 612, n = sqrt(max_pieces * nx / ny): floor(n + 1e-12) and ceil(n - 1e-12)
floor_sqrt(num, den) ==
    CHOOSE k \in 0..num : k * k * den <= num /\ (k + 1) * (k + 1) * den > num
ceil_sqrt(num, den) ==
    CHOOSE k \in 0..(num + 1) : k * k * den >= num /\ (k = 0 \/ (k - 1) * (k - 1) * den < num)
\* lines 617-618
RECURSIVE divisor_down(_, _)
divisor_down(max_pieces, n1) ==
    IF max_pieces % n1 # 0 THEN divisor_down(max_pieces, n1 - 1) ELSE n1
\* lines 620-621
RECURSIVE divisor_up(_, _)
divisor_up(max_pieces, n2) ==
    IF max_pieces % n2 # 0 THEN divisor_up(max_pieces, n2 + 1) ELSE n2

\* lines 595-638
launch_2d(shape2, vol, max_pieces) ==
    IF vol < max_pieces THEN shape2
    ELSE LET swap == shape2[1] > shape2[2]
             nx == IF swap THEN shape2[2] ELSE shape2[1]
             ny == IF swap THEN shape2[1] ELSE shape2[2]
             n1 == divisor_down(max_pieces, Max(floor_sqrt(max_pieces * nx, ny), 1))
             n2 == divisor_up(max_pieces, ceil_sqrt(max_pieces * nx, ny))
             side1 == Max(nx \div n1, ny \div (max_pieces \div n1))
             side2 == Max(nx \div n2, ny \div (max_pieces \div n2))
             px == IF side1 <= side2 THEN n1 ELSE n2
             py == max_pieces \div px
         IN  IF swap THEN <<Min(py, shape2[1]), Min(px, shape2[2])>>
             ELSE <<Min(px, shape2[1]), Min(py, shape2[2])>>

\* lines 651-673: the dimension one factor is put on
factor_dim(shapeN, temp_result, factor) ==
    LET remaining == [d \in DOMAIN shapeN |->
                          (shapeN[d] + temp_result[d] - 1) \div temp_result[d]]
        big_dim == index(remaining, MaxOf(remaining))
        last == Len(shapeN)
    IN  IF big_dim < last THEN big_dim
        ELSE IF Len(remaining) = 1 \/ remaining[big_dim] \div factor >= 32 THEN big_dim
        ELSE LET other == index(remaining, MaxOf(SubSeq(remaining, 1, last - 1)))
             IN  IF remaining[other] \div factor > 0 THEN other ELSE last

\* lines 646-673: the loop over self._piece_factors
RECURSIVE launch_nd(_, _, _, _, _)
launch_nd(shapeN, factors, temp_result, factor_prod, max_pieces) ==
    IF factors = <<>> \/ Head(factors) * factor_prod > max_pieces THEN temp_result
    ELSE LET factor == Head(factors)
             d == factor_dim(shapeN, temp_result, factor)
         IN  launch_nd(shapeN, Tail(factors), [temp_result EXCEPT ![d] = @ * factor],
                       factor_prod * factor, max_pieces)

\* lines 675-686: temp_result laid back over the dimensions, 1 where the extent is 1
project_ones(shape, temp_result) ==
    [d \in DOMAIN shape |->
         IF shape[d] # 1 THEN temp_result[index(temp_dims(shape), d)] ELSE 1]

\* faulty variant, for sensitivity checks: the cache is keyed by the rank
launch_key_rank(shape) == Len(shape)

\* lines 556-557 and 689: the key of self._launch_spaces
launch_key(shape) == shape

\* lines 545-692; result: the value returned and the cache afterwards
_compute_launch_shape(num_pieces, min_shard_volume, launch_spaces, shape) ==
    LET same == [result |-> NoneShape, _launch_spaces |-> launch_spaces]
        vol == volume(temp_shape(shape))
        max_pieces == (vol + min_shard_volume - 1) \div min_shard_volume
        dims == Len(temp_shape(shape))
        temp_result ==
            IF dims = 1 THEN launch_1d(temp_shape(shape)[1], num_pieces)
            ELSE IF dims = 2 THEN launch_2d(temp_shape(shape), vol, num_pieces)
            ELSE launch_nd(temp_shape(shape), _piece_factors(num_pieces),
                           [d \in 1..dims |-> 1], 1, num_pieces)
        result == Shape(project_ones(shape, temp_result))
    IN  IF num_pieces = 1 THEN same
        ELSE IF \A d \in DOMAIN shape : shape[d] <= 1 THEN same
        ELSE IF launch_key(shape) \in DOMAIN launch_spaces
        THEN [result |-> launch_spaces[launch_key(shape)], _launch_spaces |-> launch_spaces]
        ELSE IF max_pieces = 1
        THEN [result |-> NoneShape,
              _launch_spaces |-> DictSet(launch_spaces, launch_key(shape), NoneShape)]
        ELSE [result |-> result,
              _launch_spaces |-> DictSet(launch_spaces, launch_key(shape), result)]

\* faulty variant, for sensitivity checks: the RESTRICTED dimensions are not
\* filtered out
compute_launch_shape_unfiltered(num_pieces, min_shard_volume, launch_spaces, shape, restrictions) ==
    _compute_launch_shape(num_pieces, min_shard_volume, launch_spaces, shape)

\* lines 522-543
compute_launch_shape(num_pieces, min_shard_volume, launch_spaces, shape, restrictions) ==
    LET r == _compute_launch_shape(num_pieces, min_shard_volume, launch_spaces,
                                   to_partition(shape, restrictions))
    IN  IF r.result.isNone THEN r
        ELSE [r EXCEPT !.result = Shape(project_restricted(r.result.extents, restrictions))]

LsNoCall == [shape |-> <<>>, restrictions |-> <<>>, result |-> NoneShape, hit |-> FALSE,
             repeat |-> FALSE, first |-> NoneShape, fresh |-> NoneShape]

LsIdle ==
    /\ _num_pieces = 1
    /\ _min_shard_volume = 1
    /\ _launch_spaces = NoDict
    /\ ls_pool = {}
    /\ ls_calls = 0
    /\ ls_seen = NoDict
    /\ ls_last = LsNoCall

\* PartitionManager.__init__ (lines 485-520) with tunables the constructor accepts
LsInit ==
    /\ _num_pieces \in PieceCounts
    /\ _min_shard_volume \in ShardVolumes
    /\ _launch_spaces = NoDict
    /\ ls_pool \in {{input} : input \in LaunchInputs} \cup {MemoPool}
    /\ ls_calls = 0
    /\ ls_seen = NoDict
    /\ ls_last = LsNoCall

\* compute_launch_shape(store, restrictions) with store.shape = shape
ComputeLaunchShape(shape, restrictions) ==
    LET r == compute_launch_shape(_num_pieces, _min_shard_volume, _launch_spaces,
                                  shape, restrictions)
        input == <<shape, restrictions>>
    IN  /\ ls_calls < MaxLaunchCalls
        /\ input \in ls_pool
        /\ ls_calls' = ls_calls + 1
        /\ _launch_spaces' = r._launch_spaces
        /\ ls_seen' = IF input \in DOMAIN ls_seen THEN ls_seen
                      ELSE DictSet(ls_seen, input, r.result)
        /\ ls_last' = [shape |-> shape, restrictions |-> restrictions, result |-> r.result,
                       hit |-> launch_key(to_partition(shape, restrictions))
                                   \in DOMAIN _launch_spaces,
                       repeat |-> input \in DOMAIN ls_seen,
                       first |-> IF input \in DOMAIN ls_seen THEN ls_seen[input] ELSE r.result,
                       fresh |-> compute_launch_shape(_num_pieces, _min_shard_volume, NoDict,
                                                      shape, restrictions).result]
        /\ UNCHANGED <<_num_pieces, _min_shard_volume, ls_pool>>
        /\ UNCHANGED ls_others

(***************************************************************************)
(* Operation (operation.py 22-105), Runtime.serialize_multiop_metadata     *)
(* (runtime.py 1182-1229) and the fused branch of build_fused_op           *)
(* (runtime.py 1287-1320).  The ops are Tasks (operation.py 124-132): they *)
(* carry a task id and scalar args.                                        *)
(***************************************************************************)
MaxAddCalls == 3
MaxSubOps == 3
OpStores == {"p", "q", "s"}
Redops == {"add"}
NoReduction == <<NoStore, NoStore>>

\* the scalar args a library passes
ScalarArgs == {<<7, "int64">>}

\* Operation.__init__ (lines 23-33) and Task.__init__ (lines 124-128)
Task(task_id) ==
    [_inputs |-> <<>>, _outputs |-> <<>>, _reductions |-> <<>>,
     _scalar_output |-> NoStore, _scalar_reduction |-> NoReduction,
     _task_id |-> task_id, _scalar_args |-> <<>>]
\* the first task a library creates
Operation == Task(1)

\* Context.get_task_id: the library's first task id plus the local id
get_task_id(local_id) == 200 + local_id

\* lines 131-132
add_scalar_arg(self, arg) == [op |-> [self EXCEPT !._scalar_args = Append(@, arg)], error |-> ""]

\* lines 79-80
add_input(self, store) == [op |-> [self EXCEPT !._inputs = Append(@, store)], error |-> ""]

\* faulty variant, for sensitivity checks: only the scalar output is looked at
_has_scalar_output_only(self) == self._scalar_output # NoStore

\* lines 82-87
_has_scalar_output(self) ==
    self._scalar_reduction # NoReduction \/ self._scalar_output # NoStore

\* lines 89-91: the error raised, "" if none
_check_scalar_output(self) ==
    IF _has_scalar_output(self) THEN "Only one scalar store can be used for output" ELSE ""

\* lines 93-98
add_output(self, store) ==
    IF scalar(store)
    THEN IF _check_scalar_output(self) # ""
         THEN [op |-> self, error |-> _check_scalar_output(self)]
         ELSE [op |-> [self EXCEPT !._scalar_output = store], error |-> ""]
    ELSE [op |-> [self EXCEPT !._outputs = Append(@, store)], error |-> ""]

\* lines 100-105
add_reduction(self, store, redop) ==
    IF scalar(store)
    THEN IF _check_scalar_output(self) # ""
         THEN [op |-> self, error |-> _check_scalar_output(self)]
         ELSE [op |-> [self EXCEPT !._scalar_reduction = <<store, redop>>], error |-> ""]
    ELSE [op |-> [self EXCEPT !._reductions = Append(@, <<store, redop>>)], error |-> ""]

\* op._input_parts, op._output_parts, op._reduction_parts: one partition per entry
parts(entries) == [k \in DOMAIN entries |-> "part"]
\* Python zip: as long as the shorter list
zip(xs, ys) ==
    [k \in 1..(IF Len(xs) <= Len(ys) THEN Len(xs) ELSE Len(ys)) |-> <<xs[k], ys[k]>>]

\* store.kind is Future (runtime.py 1202): a scalar store is backed by a future
kind_is_Future(store) == scalar(store)

\* faulty variant, for sensitivity checks: the input cursor advances like the offset cursor
next_starts_as_offsets(starts, op) ==
    [input_start |-> starts.input_start + Len(op._inputs) + Len(op._outputs),
     output_start |-> starts.output_start + Len(op._outputs),
     offset_start |-> starts.offset_start + Len(op._inputs) + Len(op._outputs),
     reduction_start |-> starts.reduction_start + Len(op._reductions),
     scalar_start |-> starts.scalar_start + Len(op._scalar_args),
     future_start |-> starts.future_start
                          + Len(SelectSeq(op._inputs, LAMBDA input : kind_is_Future(input)))]

\* lines 1200-1215: the cursors after one op
next_starts(starts, op) ==
    [input_start |-> starts.input_start + Len(op._inputs),
     output_start |-> starts.output_start + Len(op._outputs),
     offset_start |-> starts.offset_start + Len(op._inputs) + Len(op._outputs),
     reduction_start |-> starts.reduction_start + Len(op._reductions),
     scalar_start |-> starts.scalar_start + Len(op._scalar_args),
     future_start |-> starts.future_start
                          + Len(SelectSeq(op._inputs, LAMBDA input : kind_is_Future(input)))]

\* lines 1200-1207: the offsets one op contributes
op_offsets(op) ==
    [i \in DOMAIN op._inputs |-> i] \o [o \in DOMAIN op._outputs |-> 0 - o]
        \o [r \in DOMAIN op._reductions |-> 0 - r]

\* lines 1193-1198 and 1218-1223: the cursors are appended to the start arrays
append_starts(meta, starts) ==
    [meta EXCEPT !.input_starts = Append(@, starts.input_start),
                 !.output_starts = Append(@, starts.output_start),
                 !.offset_starts = Append(@, starts.offset_start),
                 !.reduction_starts = Append(@, starts.reduction_start),
                 !.scalar_starts = Append(@, starts.scalar_start),
                 !.future_starts = Append(@, starts.future_start)]

\* lines 1192-1215: the loop over ops
RECURSIVE serialize_loop(_, _, _)
serialize_loop(ops, starts, meta) ==
    IF ops = <<>> THEN append_starts(meta, starts)
    ELSE serialize_loop(Tail(ops), next_starts(starts, Head(ops)),
                        [append_starts(meta, starts) EXCEPT
                             !.offsets = @ \o op_offsets(Head(ops)),
                             !.op_ids = Append(@, get_task_id(Head(ops)._task_id))])

\* lines 1182-1229
serialize_multiop_metadata(ops) ==
    serialize_loop(ops,
        [input_start |-> 0, output_start |-> 0, offset_start |-> 0, reduction_start |-> 0,
         scalar_start |-> 0, future_start |-> 0],
        [input_starts |-> <<>>, output_starts |-> <<>>, offset_starts |-> <<>>,
         offsets |-> <<>>, reduction_starts |-> <<>>, scalar_starts |-> <<>>,
         future_starts |-> <<>>, op_ids |-> <<>>])

\* one of the loops of lines 1305-1312: add every zipped entry to the fused task;
\* an error raised by an add_* call ends the build
RECURSIVE add_each(_, _, _)
add_each(task, call, zipped) ==
    IF zipped = <<>> \/ task.error # "" THEN task
    ELSE LET entry == Head(zipped)[1]
         IN  add_each(CASE call = "add_reduction" -> add_reduction(task.op, entry[1], entry[2])
                        [] call = "add_input" -> add_input(task.op, entry)
                        [] call = "add_output" -> add_output(task.op, entry),
                      call, Tail(zipped))

\* lines 1300-1319: the loop over op_subset
RECURSIVE fuse_loop(_, _)
fuse_loop(task, op_subset) ==
    IF op_subset = <<>> \/ task.error # "" THEN task
    ELSE LET op == Head(op_subset)
             reds == add_each(task, "add_reduction", zip(op._reductions, parts(op._reductions)))
             ins == add_each(reds, "add_input", zip(op._inputs, parts(op._inputs)))
             outs == add_each(ins, "add_output", zip(op._outputs, parts(op._outputs)))
         IN  fuse_loop(outs, Tail(op_subset))

\* lines 1289-1320: the fused task of op_subset and its header
fused_task(op_subset) ==
    LET built == fuse_loop([op |-> Task(fused_id), error |-> ""], op_subset)
    IN  [task |-> built.op, error |-> built.error,
         fusion_metadata |-> serialize_multiop_metadata(op_subset)]

NoFused == [task |-> Operation, error |-> "not built",
            fusion_metadata |-> serialize_multiop_metadata(<<>>)]
NoAdd == [call |-> "none", store |-> NoStore, error |-> "", before |-> Operation,
          after |-> Operation]

OpInit ==
    /\ op_cur = Operation
    /\ op_window = <<>>
    /\ op_fused = NoFused
    /\ op_last = NoAdd
    /\ op_n = 0

OpAdd(call, store, r) ==
    /\ op_fused = NoFused
    /\ op_n < MaxAddCalls
    /\ op_n' = op_n + 1
    /\ op_cur' = r.op
    /\ op_last' = [call |-> call, store |-> store, error |-> r.error, before |-> op_cur,
                   after |-> r.op]
    /\ UNCHANGED <<op_window, op_fused>>
    /\ UNCHANGED op_others

AddInput(store) ==
    /\ store \in OpStores
    /\ OpAdd("add_input", store, add_input(op_cur, store))

AddOutput(store) ==
    /\ store \in OpStores
    /\ OpAdd("add_output", store, add_output(op_cur, store))

AddReduction(store, redop) ==
    /\ store \in OpStores
    /\ OpAdd("add_reduction", store, add_reduction(op_cur, store, redop))

AddScalarArg(arg) ==
    /\ arg \in ScalarArgs
    /\ OpAdd("add_scalar_arg", NoStore, add_scalar_arg(op_cur, arg))

\* op.execute() (operation.py 120-121): the op joins the window, the library
\* creates the next task; the k-th task of a run has task id k
Execute ==
    /\ op_fused = NoFused
    /\ Len(op_window) < MaxSubOps
    /\ op_window' = Append(op_window, op_cur)
    /\ op_cur' = Task(Len(op_window) + 2)
    /\ UNCHANGED <<op_fused, op_last, op_n>>
    /\ UNCHANGED op_others

\* build_fused_op on an interval of two or more ops (lines 1287-1320)
BuildFusedTask ==
    /\ op_fused = NoFused
    /\ Len(op_window) >= 2
    /\ op_fused' = fused_task(op_window)
    /\ UNCHANGED <<op_cur, op_window, op_last, op_n>>
    /\ UNCHANGED op_others

(***************************************************************************)
(* Copy (operation.py 174-226) under the Partitioner: a library builds a   *)
(* Copy, the Runtime partitions it on its own (runtime.py 1384-1391) and   *)
(* launches it with the Strategy it got.                                   *)
(***************************************************************************)
MaxCopyCalls == 4
CpStores == {"x", "y", "z"}
\* the pairs a library aligns
CpPairs == { <<"x", "y">>, <<"x", "z">>, <<"y", "z">> }

\* Operation.__init__ (lines 23-33) and Copy.__init__ (lines 175-178);
\* alignments holds the pairs handed to add_alignment, in call order
CopyOperation ==
    [_no_accesses |-> <<>>, _inputs |-> <<>>, _outputs |-> <<>>, _reductions |-> <<>>,
     _scalar_output |-> NoStore, _scalar_reduction |-> NoReduction,
     _source_indirects |-> <<>>, _target_indirects |-> <<>>, alignments |-> <<>>]

\* lines 188-189
add_source_indirect(self, store) == [self EXCEPT !._source_indirects = Append(@, store)]
\* lines 191-192
add_target_indirect(self, store) == [self EXCEPT !._target_indirects = Append(@, store)]
\* lines 107-115, for stores of one shape
add_alignment(self, store1, store2) ==
    [self EXCEPT !.alignments = Append(@, <<store1, store2>>)]

\* faulty variant, for sensitivity checks: the indirection stores are reported too
get_all_stores_with_indirects(self) ==
    Range(self._no_accesses) \cup Range(self._inputs) \cup Range(self._outputs)
        \cup {reduction[1] : reduction \in Range(self._reductions)}
        \cup Range(self._source_indirects) \cup Range(self._target_indirects)

\* lines 67-74
get_all_stores(self) ==
    Range(self._no_accesses) \cup Range(self._inputs) \cup Range(self._outputs)
        \cup {reduction[1] : reduction \in Range(self._reductions)}

\* solver.py 103-107: Strategy.__getitem__ over a list of stores, in order; the
\* stores looked up and the error raised ("" if none)
RECURSIVE lookups(_, _, _)
lookups(partitions, stores, done) ==
    IF stores = <<>> THEN [looked_up |-> done, error |-> ""]
    ELSE IF Head(stores) \notin DOMAIN partitions
    THEN [looked_up |-> Append(done, Head(stores)), error |-> "No strategy is found"]
    ELSE lookups(partitions, Tail(stores), Append(done, Head(stores)))

\* lines 197-226: Copy.launch(strategy)
Copy_launch(self, partitions) ==
    IF \/ Len(self._no_accesses) # 0
       \/ ~(Len(self._inputs) = Len(self._outputs) \/ Len(self._inputs) = Len(self._reductions))
       \/ ~(Len(self._source_indirects) = 0
               \/ Len(self._source_indirects) = Len(self._inputs))
       \/ ~(Len(self._target_indirects) = 0
               \/ Len(self._target_indirects) = Len(self._outputs))
    THEN [looked_up |-> <<>>, error |-> "AssertionError"]
    ELSE lookups(partitions,
                 self._inputs \o self._outputs \o self._source_indirects
                     \o self._target_indirects
                     \o [k \in DOMAIN self._reductions |-> self._reductions[k][1]],
                 <<>>)

NoLaunch == [looked_up |-> <<>>, error |-> "not launched"]

CpInit ==
    /\ cp_op = CopyOperation
    /\ cp_run = PtIdleRun
    /\ cp_pc = "build"
    /\ cp_result = NoLaunch
    /\ cp_n = 0

CpAdd(op) ==
    /\ cp_pc = "build"
    /\ cp_n < MaxCopyCalls
    /\ cp_n' = cp_n + 1
    /\ cp_op' = op
    /\ UNCHANGED <<cp_run, cp_pc, cp_result>>
    /\ UNCHANGED cp_others

CopyAddInput(store) == CpAdd(add_input(cp_op, store).op)
CopyAddOutput(store) == CpAdd(add_output(cp_op, store).op)
CopyAddReduction(store, redop) == CpAdd(add_reduction(cp_op, store, redop).op)
CopyAddSourceIndirect(store) == CpAdd(add_source_indirect(cp_op, store))
CopyAddTargetIndirect(store) == CpAdd(add_target_indirect(cp_op, store))
CopyAddAlignment(store1, store2) == CpAdd(add_alignment(cp_op, store1, store2))

\* op.execute() on a Runtime that schedules the Copy by itself: lines 137-161
\* of partition_stores; must_be_single is False, the Copy has no scalar output
CopyExecute ==
    /\ cp_pc = "build"
    /\ cp_pc' = "partition"
    /\ cp_run' = partition_stores_begin(
                      <<PtOp(get_all_stores(cp_op), cp_op.alignments, {})>>, FALSE)
    /\ UNCHANGED <<cp_op, cp_result, cp_n>>
    /\ UNCHANGED cp_others

\* one iteration of the while loop of partition_stores, popping `store`
CopyPop(store) ==
    /\ cp_pc = "partition"
    /\ cp_run.pc = "loop"
    /\ store \in cp_run.stores
    /\ cp_run' = partition_stores_iteration(cp_run, store)
    /\ UNCHANGED <<cp_op, cp_pc, cp_result, cp_n>>
    /\ UNCHANGED cp_others

\* partition_stores returns and the Copy is launched with the Strategy
\* (runtime.py 1391)
CopyLaunch ==
    /\ cp_pc = "partition"
    /\ cp_run.pc = "done" \/ (cp_run.pc = "loop" /\ cp_run.stores = {})
    /\ LET run == IF cp_run.pc = "done" THEN cp_run ELSE partition_stores_end(cp_run)
       IN  /\ cp_run' = run
           /\ cp_result' = Copy_launch(cp_op, run.partitions)
    /\ cp_pc' = "done"
    /\ UNCHANGED <<cp_op, cp_n>>
    /\ UNCHANGED cp_others

(***************************************************************************)
(* Runtime.get_projection (runtime.py 1078-1087, 1450-1480)                *)
(***************************************************************************)
\* core_library._lib.LEGATE_CORE_FIRST_DYNAMIC_FUNCTOR_ID
LEGATE_CORE_FIRST_DYNAMIC_FUNCTOR_ID == 10
\* the (src_ndim, dims) pairs the stores of a run ask for
ProjSpecs == { <<1, <<0>> >>, <<2, <<0>> >>, <<2, <<1>> >>, <<2, <<1, 0>> >>, <<3, <<0, 2>> >> }

\* Context.get_projection_id: the library's first projection id plus the local id
get_projection_id(local_id) == 100 + local_id
local_id_of(global_id) == global_id - 100

PjState == [_next_projection_id |-> _next_projection_id,
            _next_sharding_id |-> _next_sharding_id,
            _registered_projections |-> _registered_projections,
            _registered_shardings |-> _registered_shardings,
            pj_functors |-> pj_functors]

\* faulty variant, for sensitivity checks: the memo is not consulted
get_projection_unmemoized(rt, src_ndim, dims) ==
    LET spec == <<src_ndim, dims>>
        proj_id == get_projection_id(rt._next_projection_id)
        shard_id == get_projection_id(rt._next_sharding_id)
    IN  [result |-> proj_id,
         rt |-> [_next_projection_id |-> rt._next_projection_id + 1,
                 _next_sharding_id |-> rt._next_sharding_id + 1,
                 _registered_projections |-> DictSet(rt._registered_projections, spec, proj_id),
                 _registered_shardings |-> DictSet(rt._registered_shardings, spec, shard_id),
                 pj_functors |-> rt.pj_functors
                     \o << <<"projection", src_ndim, Len(dims), dims, proj_id>>,
                           <<"sharding", shard_id, proj_id>> >>]]

\* lines 1450-1480
get_projection(rt, src_ndim, dims) ==
    LET spec == <<src_ndim, dims>>
        proj_id == get_projection_id(rt._next_projection_id)
        shard_id == get_projection_id(rt._next_sharding_id)
    IN  IF spec \in DOMAIN rt._registered_projections
        THEN [result |-> rt._registered_projections[spec], rt |-> rt]
        ELSE [result |-> proj_id,
              rt |-> [_next_projection_id |-> rt._next_projection_id + 1,
                      _next_sharding_id |-> rt._next_sharding_id + 1,
                      _registered_projections |->
                          DictSet(rt._registered_projections, spec, proj_id),
                      _registered_shardings |->
                          DictSet(rt._registered_shardings, spec, shard_id),
                      pj_functors |-> rt.pj_functors
                          \o << <<"projection", src_ndim, Len(dims), dims, proj_id>>,
                                <<"sharding", shard_id, proj_id>> >>]]

\* Runtime.__init__ (lines 1078-1087)
PjInit ==
    /\ _next_projection_id = LEGATE_CORE_FIRST_DYNAMIC_FUNCTOR_ID
    /\ _next_sharding_id = LEGATE_CORE_FIRST_DYNAMIC_FUNCTOR_ID
    /\ _registered_projections = NoDict
    /\ _registered_shardings = NoDict
    /\ pj_functors = <<>>
    /\ pj_last = [spec |-> <<0, <<>> >>, result |-> 0, before |-> [
                      _next_projection_id |-> LEGATE_CORE_FIRST_DYNAMIC_FUNCTOR_ID,
                      _next_sharding_id |-> LEGATE_CORE_FIRST_DYNAMIC_FUNCTOR_ID,
                      _registered_projections |-> NoDict,
                      _registered_shardings |-> NoDict,
                      pj_functors |-> <<>>]]

GetProjection(src_ndim, dims) ==
    LET r == get_projection(PjState, src_ndim, dims)
    IN  /\ _next_projection_id' = r.rt._next_projection_id
        /\ _next_sharding_id' = r.rt._next_sharding_id
        /\ _registered_projections' = r.rt._registered_projections
        /\ _registered_shardings' = r.rt._registered_shardings
        /\ pj_functors' = r.rt.pj_functors
        /\ pj_last' = [spec |-> <<src_ndim, dims>>, result |-> r.result, before |-> PjState]
        /\ UNCHANGED pj_others

(***************************************************************************)
(* FieldManager.__init__ (runtime.py 236-267)                              *)
(***************************************************************************)
FmiShapes == UNION {[1..n -> {0, 1, 2, 3}] : n \in 1..2}
FmiDtypeSizes == {1, 4, 8}
\* runtime.max_field_reuse_size (uint64) and runtime.max_field_reuse_frequency
\* (uint32, at least 1)
FmiReuseSizes == {0, 1, 4, 8, 16}
FmiReuseFrequencies == {1, 2, 3, 32}
FmiArgs == [shape : FmiShapes, dtype_size : FmiDtypeSizes,
            max_field_reuse_size : FmiReuseSizes,
            max_field_reuse_frequency : FmiReuseFrequencies]
NotMade == [error |-> "not made", match_frequency |-> 0]

\* lines 253-267; Python's // raises ZeroDivisionError on a zero divisor
FieldManager__init__(shape, dtype_size, max_field_reuse_size, max_field_reuse_frequency) ==
    LET size == volume(shape) * dtype_size
    IN  IF size > max_field_reuse_size
        THEN IF max_field_reuse_size = 0
             THEN [error |-> "ZeroDivisionError", match_frequency |-> 0]
             ELSE LET ratio == (size + max_field_reuse_size - 1) \div max_field_reuse_size
                  IN  [error |-> "",
                       match_frequency |-> (max_field_reuse_frequency + ratio - 1) \div ratio]
        ELSE [error |-> "", match_frequency |-> max_field_reuse_frequency]

FmiIdle ==
    /\ fmi_args = [shape |-> <<1>>, dtype_size |-> 1, max_field_reuse_size |-> 1,
                   max_field_reuse_frequency |-> 1]
    /\ fmi_made = NotMade

FmiInit ==
    /\ fmi_args \in FmiArgs
    /\ fmi_made = NotMade

\* Runtime.find_or_create_field_manager constructs the manager
Construct ==
    /\ fmi_made = NotMade
    /\ fmi_made' = FieldManager__init__(fmi_args.shape, fmi_args.dtype_size,
                                        fmi_args.max_field_reuse_size,
                                        fmi_args.max_field_reuse_frequency)
    /\ UNCHANGED fmi_args
    /\ UNCHANGED fmi_others

(***************************************************************************)
(* RegionManager (runtime.py 182-233)                                      *)
(* A region is <<"created", n>> (made by _create_region) or                *)
(* <<"imported", n>> (an output region a task made, imported by            *)
(* Runtime.import_output_region, lines 1543-1560).                         *)
(***************************************************************************)
MaxRegionCalls == 5
ImportedRegions == {<<"imported", 1>>, <<"imported", 2>>, <<"imported", 3>>}
\* fields an imported region's field space already holds when it is imported
ImportedFields(region) == IF region[2] = 3 THEN FieldSpaceCapacity ELSE 1

\* lines 202-205
import_region(rm, region) ==
    IF region \notin rm._region_set
    THEN [rm EXCEPT !._top_regions = Append(@, region), !._region_set = @ \cup {region}]
    ELSE rm

\* lines 207-209
active_region(rm) == rm._top_regions[Len(rm._top_regions)]

\* lines 211-216, with field_space.has_space
has_space(rm) ==
    Len(rm._top_regions) > 0 /\ rm.rm_fields[active_region(rm)] < FieldSpaceCapacity

\* lines 218-226
_create_region(rm) ==
    LET region == <<"created", Len(rm.rm_created) + 1>>
    IN  [rm EXCEPT !._top_regions = Append(@, region),
                   !._region_set = @ \cup {region},
                   !.rm_fields = DictSet(@, region, 0),
                   !.rm_created = Append(@, region)]

\* lines 228-233
RegionManager_allocate_field(rm) ==
    LET made == IF ~has_space(rm) THEN _create_region(rm) ELSE rm
        region == active_region(made)
        field_id == made.rm_fields[region] + 1
    IN  [rm |-> [made EXCEPT !.rm_fields = DictSet(@, region, field_id)],
         result |-> <<region, field_id>>]

RmState == [_top_regions |-> _top_regions, _region_set |-> _region_set,
            rm_fields |-> rm_fields, rm_created |-> rm_created]

\* RegionManager.__init__ (lines 183-187)
RmInit ==
    /\ _top_regions = <<>>
    /\ _region_set = {}
    /\ rm_fields = NoDict
    /\ rm_created = <<>>
    /\ rm_calls = 0

RmSet(rm) ==
    /\ _top_regions' = rm._top_regions
    /\ _region_set' = rm._region_set
    /\ rm_fields' = rm.rm_fields
    /\ rm_created' = rm.rm_created
    /\ UNCHANGED rm_others

\* FieldManager.allocate_field falls through to the RegionManager (lines 311-312)
RegionAllocateField ==
    /\ rm_calls < MaxRegionCalls
    /\ rm_calls' = rm_calls + 1
    /\ RmSet(RegionManager_allocate_field(RmState).rm)

\* Runtime.import_output_region (lines 1543-1548)
ImportRegion(region) ==
    /\ region \notin _region_set
    /\ RmSet(import_region([RmState EXCEPT
                 !.rm_fields = DictSet(@, region, ImportedFields(region))], region))
    /\ UNCHANGED rm_calls

RestIdle == OpInit /\ PjInit /\ FmiIdle /\ RmInit /\ DsIdle /\ CpInit
LibIdle == EqInit /\ PtIdle /\ AtInit /\ LsIdle /\ RestIdle

(***************************************************************************)
(* Specifications                                                          *)
(***************************************************************************)
\* the Runtime's scheduling window
Init == RtInit /\ FcIdle /\ FmInit /\ LibIdle
Next ==
    \/ \E desc \in RtOpPool : Submit(desc)
    \/ Flush
    \/ LaunchOutstanding
    \/ PipeExecute
    \/ PipeDone
    \/ PipeRaise
Spec == Init /\ [][Next]_vars

\* one FusionChecker.can_fuse call on an arbitrary window
InitFusion == FcInit /\ RtInit /\ FmInit /\ LibIdle
NextFusion ==
    \/ ApplyAllValidOps
    \/ ApplyIdenticalLaunchShapes
    \/ ApplyIdenticalProjection
    \/ ApplyValidProducerConsumer
    \/ SupressSmallFusions
SpecFusion == InitFusion /\ [][NextFusion]_vars

\* one FieldManager on two shards
InitFields == FmInit /\ RtInit /\ FcIdle /\ LibIdle
NextFields ==
    \/ \E s \in Shards : AllocBegin(s)
    \/ \E s \in Shards : DrainUpdate(s)
    \/ \E s \in Shards : DrainCheck(s)
    \/ \E s \in Shards : AllocNew(s)
    \/ \E s \in Shards : \E f \in held[s] : FreeField(s, f)
    \/ ConsensusMatch
SpecFields == InitFields /\ [][NextFields]_vars

\* EqClass objects under record, union and copy
InitEq == RtInit /\ FcIdle /\ FmInit /\ EqInit /\ PtIdle /\ AtInit /\ LsIdle /\ RestIdle
NextEq ==
    \/ \E o \in EqNames : \E store1, store2 \in EqStores :
           Record(o, store1, store2)
    \/ \E o, other \in EqNames : Union(o, other)
    \/ \E o, other \in EqNames : Copy(o, other)
SpecEq == InitEq /\ [][NextEq]_vars

\* partition_stores on two shards
InitPartition == RtInit /\ FcIdle /\ FmInit /\ EqInit /\ PtInit /\ AtInit /\ LsIdle /\ RestIdle
NextPartition ==
    \/ \E sh \in Shards : PtBegin(sh)
    \/ \E sh \in Shards : \E store \in PtStores : PtPop(sh, store)
    \/ \E sh \in Shards : PtReturn(sh)
SpecPartition == InitPartition /\ [][NextPartition]_vars

\* one AttachmentManager
InitAttach == RtInit /\ FcIdle /\ FmInit /\ LibIdle
NextAttach ==
    \/ \E alloc \in Allocs : Attach(alloc)
    \/ \E alloc \in Allocs : \E defer, ready \in BOOLEAN :
           \E pend \in 0..MaxAttachCalls : Detach(alloc, defer, ready, pend)
    \/ \E buf \in Bufs : Reuse(buf)
    \/ \E pend \in 0..MaxAttachCalls : PerformDetachments(pend)
    \/ \E ready \in 1..MaxAttachCalls : PruneDetachments(ready)
    \/ \E rf \in 1..MaxAttachCalls : Collect(rf)
SpecAttach == InitAttach /\ [][NextAttach]_vars

\* The AttachmentManager under the Runtime that dispatches operations.  The
\* detachment path reads no region field (lines 423-454, 467-481), so the
\* collection of region fields and the reuse lookups are left to SpecAttach.
NextDetachments ==
    \/ \E alloc \in Allocs : Attach(alloc)
    \/ \E alloc \in Allocs : \E defer, ready \in BOOLEAN :
           \E pend \in 0..MaxAttachCalls : Detach(alloc, defer, ready, pend)
    \/ \E pend \in 0..MaxAttachCalls : Dispatch(pend)
    \/ \E pend \in 0..MaxAttachCalls : PerformDetachments(pend)
    \/ \E ready \in 1..MaxAttachCalls : PruneDetachments(ready)
SpecDetachments == InitAttach /\ [][NextDetachments]_vars

\* AttachmentManager.destroy on a manager at shutdown.  destroy keeps running
\* until it returns, and the engine completes every detach it was handed.
InitDestroy ==
    RtInit /\ FcIdle /\ FmInit /\ EqInit /\ PtIdle /\ LsIdle /\ OpInit /\ PjInit /\ FmiIdle
        /\ RmInit /\ DsInit /\ CpInit
DestroySteps ==
    \/ DestroyBegin
    \/ \E unready \in SUBSET {DsDetach(i) : i \in DsAllocs} : DrainPerform(unready)
    \/ \E freed \in SUBSET DsAllocs : DrainProgress(freed)
    \/ DrainExit
    \/ AwaitPrune
    \/ AwaitExit
Completions == \E i \in DsAllocs : FutureReady(DsDetach(i))
NextDestroy == DestroySteps \/ Completions
SpecDestroy ==
    InitDestroy /\ [][NextDestroy]_vars /\ WF_vars(DestroySteps) /\ WF_vars(Completions)

\* one PartitionManager answering compute_launch_shape calls
InitLaunch == RtInit /\ FcIdle /\ FmInit /\ EqInit /\ PtIdle /\ AtInit /\ LsInit /\ RestIdle
NextLaunch ==
    \E input \in ls_pool : ComputeLaunchShape(input[1], input[2])
SpecLaunch == InitLaunch /\ [][NextLaunch]_vars

\* a library builds operations, executes them, and a window of them is fused
InitOperation == RtInit /\ FcIdle /\ FmInit /\ LibIdle
NextOperation ==
    \/ \E store \in OpStores : AddInput(store)
    \/ \E store \in OpStores : AddOutput(store)
    \/ \E store \in OpStores : \E redop \in Redops : AddReduction(store, redop)
    \/ \E arg \in ScalarArgs : AddScalarArg(arg)
    \/ Execute
    \/ BuildFusedTask
SpecOperation == InitOperation /\ [][NextOperation]_vars

\* one Copy is built, partitioned and launched
InitCopy == RtInit /\ FcIdle /\ FmInit /\ LibIdle
NextCopy ==
    \/ \E store \in CpStores : CopyAddInput(store)
    \/ \E store \in CpStores : CopyAddOutput(store)
    \/ \E store \in CpStores : \E redop \in Redops : CopyAddReduction(store, redop)
    \/ \E store \in CpStores : CopyAddSourceIndirect(store)
    \/ \E store \in CpStores : CopyAddTargetIndirect(store)
    \/ \E pair \in CpPairs : CopyAddAlignment(pair[1], pair[2])
    \/ CopyExecute
    \/ \E store \in CpStores : CopyPop(store)
    \/ CopyLaunch
SpecCopy == InitCopy /\ [][NextCopy]_vars

\* stores ask the Runtime for projection functors
InitProjection == RtInit /\ FcIdle /\ FmInit /\ LibIdle
NextProjection == \E spec \in ProjSpecs : GetProjection(spec[1], spec[2])
SpecProjection == InitProjection /\ [][NextProjection]_vars

\* one FieldManager is constructed
InitFieldManager ==
    RtInit /\ FcIdle /\ FmInit /\ EqInit /\ PtIdle /\ AtInit /\ LsIdle /\ OpInit /\ PjInit
        /\ FmiInit /\ RmInit /\ DsIdle /\ CpInit
NextFieldManager == Construct
SpecFieldManager == InitFieldManager /\ [][NextFieldManager]_vars

\* one RegionManager: fields are allocated and output regions imported
InitRegion == RtInit /\ FcIdle /\ FmInit /\ LibIdle
NextRegion ==
    \/ RegionAllocateField
    \/ \E region \in ImportedRegions : ImportRegion(region)
SpecRegion == InitRegion /\ [][NextRegion]_vars

(***************************************************************************)
(* Properties of FusionChecker.can_fuse (checked under SpecFusion)         *)
(***************************************************************************)
IntervalLen(interval) == interval[2] - interval[1]
Members(interval) == {i \in 1..Len(fc_ops) : interval[1] < i /\ i <= interval[2]}
HasEmpty(intervals) == \E k \in DOMAIN intervals : IntervalLen(intervals[k]) = 0

\* the intervals are non-empty, in increasing order, adjacent, and tile [0, n)
Tiles(intervals, n) ==
    /\ \A k \in DOMAIN intervals : intervals[k][1] < intervals[k][2]
    /\ \A k \in 1..(Len(intervals) - 1) : intervals[k][2] = intervals[k + 1][1]
    /\ IF intervals = <<>> THEN n = 0
       ELSE intervals[1][1] = 0 /\ intervals[Len(intervals)][2] = n

\* every interval of `new` lies inside one interval of `old`
Refines(new, old) ==
    \A k \in DOMAIN new : \E j \in DOMAIN old :
        old[j][1] <= new[k][1] /\ new[k][2] <= old[j][2]

\* matrices of the projections with a partition that op applies to store
TransformsOf(op, store) ==
    ({op.input_proj[k] : k \in {a \in DOMAIN op._inputs : op._inputs[a] = store}}
        \cup {op.output_proj[k] : k \in {a \in DOMAIN op._outputs : op._outputs[a] = store}})
        \ {NoPart}

\* C1: the intervals can_fuse returns are non-empty half-open intervals in
\* increasing order, pairwise non-overlapping, and their union is [0, len(ops)).
C1_FusionCompleteness == FcDone => Tiles(windows, Len(fc_ops))

\* C1 witness: a call in which a pass handed on an empty interval and the
\* result still holds a fused interval next to another one.
C1_Witness ==
    /\ FcDone
    /\ \E k \in DOMAIN fc_hist : HasEmpty(fc_hist[k])
    /\ Len(windows) >= 2
    /\ \E k \in DOMAIN windows : IntervalLen(windows[k]) >= 2

\* C3: in every returned interval, a store used by more than one op of the
\* interval has the same projection transform matrix in all of those ops.
C3_IdenticalProjection ==
    FcDone =>
        \A k \in DOMAIN windows : \A i, j \in Members(windows[k]) : \A store \in Stores :
            i # j => Cardinality(TransformsOf(fc_ops[i], store)
                                     \cup TransformsOf(fc_ops[j], store)) <= 1

\* C4: in every returned interval, once an op writes a view of a root store,
\* every later op of the interval that reads a view of that root reads that view.
C4_ValidProducerConsumer ==
    FcDone =>
        \A k \in DOMAIN windows : \A i, j \in Members(windows[k]) :
            i < j =>
                \A o \in Range(fc_ops[i]._outputs) : \A c \in Range(fc_ops[j]._inputs) :
                    getRoot(o) = getRoot(c) => o = c

\* C5: in every returned interval all ops have equal launch shapes (null
\* equals only null), so two neighbours with different launch shapes are in
\* different intervals.
C5_IdenticalLaunchShapes ==
    FcDone =>
        \A k \in DOMAIN windows : \A i, j \in Members(windows[k]) :
            fc_ops[i].launch_shape = fc_ops[j].launch_shape

\* C5 witness: two neighbouring allowlisted ops with different launch shapes,
\* in a window whose result also holds a fused interval.
C5_Witness ==
    /\ FcDone
    /\ \E i \in 1..(Len(fc_ops) - 1) :
           /\ fc_ops[i]._task_id \in validIDs /\ fc_ops[i + 1]._task_id \in validIDs
           /\ fc_ops[i].launch_shape # fc_ops[i + 1].launch_shape
    /\ \E i \in 1..(Len(fc_ops) - 1) :
           \E k \in DOMAIN windows : {i, i + 1} \subseteq Members(windows[k])

\* C6: each constraint pass only refines the list it was given, so no returned
\* interval spans a split point introduced by an earlier pass.
C6_PassesRefine ==
    /\ \A k \in 2..Len(fc_hist) :
           k <= Len(Constraints) + 1 => Refines(fc_hist[k], fc_hist[k - 1])
    /\ FcDone => \A k \in DOMAIN fc_hist : Refines(windows, fc_hist[k])

\* C6 witness: a finished call in which at least two passes split an interval
\* and the last pass met a base interval that does not start at 0.
C6_Witness ==
    /\ FcDone
    /\ Cardinality({k \in 2..(Len(Constraints) + 1) : Len(fc_hist[k]) > Len(fc_hist[k - 1])}) >= 2
    /\ Len(fc_hist[Len(Constraints)]) >= 2

(***************************************************************************)
(* Properties of the scheduling window (checked under Spec)                *)
(***************************************************************************)
Last(seq) == seq[Len(seq)]
LaunchedIds == UNION {Range(engine[p].ids) : p \in DOMAIN engine}
PendingIds ==
    UNION ({Range(outstanding_ops[k].ids) : k \in DOMAIN outstanding_ops}
               \cup {Range(pipe[k].ids) : k \in DOMAIN pipe})
UserSubmit == \E desc \in RtOpPool : Submit(desc)

\* C2: ops reach the engine in submission order: of two launched ops the one
\* submitted first is in the same launch or in an earlier one, and no op still
\* waiting to be launched was submitted before a launched one.
C2_SubmissionOrder ==
    /\ \A p, q \in DOMAIN engine :
           \A a \in DOMAIN engine[p].ids : \A b \in DOMAIN engine[q].ids :
               (p < q \/ (p = q /\ a < b)) => engine[p].ids[a] < engine[q].ids[b]
    /\ \A a \in PendingIds : \A b \in LaunchedIds : b < a

\* C2 witness: two windows were drained, one by a full window and one by a
\* flush, and the engine has seen a fused task next to other launches.
C2_Witness ==
    /\ rt_pc = "idle"
    /\ Len(engine) >= 3
    /\ \E p \in DOMAIN engine : Len(engine[p].ids) >= 2
    /\ \E k \in DOMAIN checked : Len(checked[k]) = window_size
    /\ \E k \in DOMAIN checked : Len(checked[k]) < window_size

\* C7: the window never holds more than window_size ops, and a submit that
\* fills it leaves it empty.
C7_WindowBound ==
    /\ [](Len(outstanding_ops) <= window_size)
    /\ [][(UserSubmit /\ ~clearing_pipe /\ Len(outstanding_ops) + 1 >= window_size)
              => outstanding_ops' = <<>>]_vars

\* C7 witness: a window of window_size ops has just been drained by submit.
C7_Witness ==
    /\ checked # <<>>
    /\ Len(Last(checked)) = window_size
    /\ outstanding_ops = <<>>
    /\ rt_pc = "pipe"
    /\ Len(pipe) >= 2

\* C8: while clearing_pipe is set, submit leaves the window as it is, runs no
\* FusionChecker, and launches an op that carries a strategy with that strategy.
C8_ClearingPipeBypass ==
    [][/\ (clearing_pipe /\ PipeExecute) =>
              /\ outstanding_ops' = outstanding_ops
              /\ checked' = checked
              /\ Head(pipe).strategy # NoStrategy
              /\ engine' = Append(engine, Launch(Head(pipe), Head(pipe).strategy))
       /\ (clearing_pipe /\ UserSubmit) =>
              /\ outstanding_ops' = outstanding_ops
              /\ checked' = checked
              /\ engine' = engine]_vars

\* C8 witness: inside the emission loop a fused task has been launched and
\* more of the list is still to come.
C8_Witness ==
    /\ rt_pc = "pipe"
    /\ clearing_pipe
    /\ pipe # <<>>
    /\ engine # <<>>
    /\ Last(engine).strategy = partition_stores(Last(engine).ids)
    /\ Len(Last(engine).ids) >= 2
    /\ Range(Last(engine).ids) \subseteq Range(Last(checked))

(***************************************************************************)
(* Properties of field reclamation (checked under SpecFields)              *)
(***************************************************************************)
\* C9: update_free_fields appends the consensus output to free_fields, in the
\* output's order, appends the local fields that are not in the output to
\* freed_fields, in their local order, and changes nothing else in either list.
C9_FieldReclamation ==
    [][\A s \in Shards : DrainUpdate(s) =>
           LET F == Head(matches[s]).fields
               O == IF Len(F) > 0 THEN consensus_out[Head(matches[s]).k] ELSE <<>>
               n == Len(free_fields[s])
           IN  /\ Len(free_fields'[s]) = n + Len(O)
               /\ SubSeq(free_fields'[s], 1, n) = free_fields[s]
               /\ \A k \in DOMAIN O : Wire(free_fields'[s][n + k]) = O[k]
               /\ \A k \in DOMAIN O : free_fields'[s][n + k] \in Range(F)
               /\ freed_fields'[s] =
                      freed_fields[s] \o SelectSeq(F, LAMBDA f : Wire(f) \notin Range(O))]_vars

\* C9 witness: shard 1 entered a match with [f1, f2], the answer was [f2], and
\* the update has left free_fields = [f2] and freed_fields = [f1].
C9_Witness ==
    /\ fm_pc[1] = "updated"
    /\ match_counter[1] = 0
    /\ matches[1] = <<>>
    /\ Len(consensus_in[1]) = Len(consensus_out)
    /\ Last(consensus_in[1]) = MatchInput(<< <<1, 1>>, <<1, 2>> >>)
    /\ Last(consensus_out) = MatchInput(<< <<1, 2>> >>)
    /\ free_fields[1] = << <<1, 2>> >>
    /\ freed_fields[1] = << <<1, 1>> >>

\* C10: whatever the points at which the shards release their fields, every
\* allocate_field call returns the same field on both shards and leaves the
\* same free_fields on both.
C10_ShardsAgree ==
    \A n \in 1..MaxAllocs :
        (n <= Len(returned[1]) /\ n <= Len(returned[2])) =>
            /\ returned[1][n] = returned[2][n]
            /\ free_after[1][n] = free_after[2][n]

\* C10 witness: the shards entered a match with different lists, a match
\* accepted two fields, and both shards have since reused a field.
C10_Witness ==
    /\ \E k \in DOMAIN consensus_out : consensus_in[1][k] # consensus_in[2][k]
    /\ \E k \in DOMAIN consensus_out : Len(consensus_out[k]) >= 2
    /\ \A s \in Shards :
           /\ fm_pc[s] = "idle"
           /\ \E i, j \in DOMAIN returned[s] : i < j /\ returned[s][i] = returned[s][j]
           /\ \E n \in DOMAIN free_after[s] : free_after[s][n] # <<>>

(***************************************************************************)
(* Properties of EqClass (checked under SpecEq)                            *)
(***************************************************************************)
RECURSIVE Connected(_, _)
Connected(pairs, S) ==
    LET more == S \cup {p[2] : p \in {q \in pairs : q[1] \in S}}
                  \cup {p[1] : p \in {q \in pairs : q[2] \in S}}
    IN  IF more = S THEN S ELSE Connected(pairs, more)

\* C18: right after record(a, b), find(a) and find(b) are one set, and that set
\* holds both a and b.
C18_RecordJoins ==
    eq_last.op = "record" =>
        LET fa == find(EqWorld, eq_last.self, eq_last.store1)
            fb == find(EqWorld, eq_last.self, eq_last.store2)
        IN  fa = fb /\ {eq_last.store1, eq_last.store2} \subseteq fa

\* C19: on an object changed by record calls only, find(x) is the set of stores
\* connected to x through the recorded pairs, {x} if x was never recorded.
C19_FindIsClosure ==
    \A o \in EqNames :
        eq_pure[o] => \A x \in EqStores : find(EqWorld, o, x) = Connected(eq_log[o], {x})

\* C20: after A.union(B), two stores that find put in one set in A before the
\* call, or in B, are in one set of A.
C20_UnionMerges ==
    eq_last.op = "union" =>
        \A x, y \in EqStores :
            (y \in eq_last.before[eq_last.self][x] \/ y \in eq_last.before[eq_last.other][x])
                => {x, y} \subseteq find(EqWorld, eq_last.self, x)

(***************************************************************************)
(* Properties of partition_stores (checked under SpecPartition)            *)
(***************************************************************************)
PtDone(sh) == pt_run[sh].pc = "done"

\* C11: two runs of partition_stores on the same ops that differ only in the
\* order in which the worklist hands out the stores return the same launch
\* shape and the same partition for every store.
C11_PopOrderIndependent ==
    (~pt_single /\ PtDone(1) /\ PtDone(2)) =>
        /\ pt_run[1].launch_shape = pt_run[2].launch_shape
        /\ pt_run[1].partitions = pt_run[2].partitions

\* C17: in the Strategy of a run that is not must_be_single, two stores joined by
\* add_alignment on an op of the input have the same partition, or NoPartition
\* both when one of them is scalar.
C17_AlignedSamePartition ==
    \A sh \in Shards :
        (~pt_single /\ PtDone(sh)) =>
            \A i \in DOMAIN pt_ops : \A k \in DOMAIN pt_ops[i].alignments :
                LET a == pt_ops[i].alignments[k][1]
                    b == pt_ops[i].alignments[k][2]
                    partitions == pt_run[sh].partitions
                IN  /\ {a, b} \subseteq DOMAIN partitions
                    /\ IF scalar(a) \/ scalar(b)
                       THEN partitions[a] = NoPartition /\ partitions[b] = NoPartition
                       ELSE partitions[a] = partitions[b]

(***************************************************************************)
(* Properties of the AttachmentManager (checked under SpecAttach)          *)
(***************************************************************************)
ByteRange(ptr, extent) == ptr..(ptr + extent - 1)
Disjoint ==
    \A k1, k2 \in DOMAIN _attachments :
        k1 # k2 => ByteRange(k1[1], k1[2]) \cap ByteRange(k2[1], k2[2]) = {}
LastBufs == {at_last.alloc.shard_local_buffers[i] : i \in DOMAIN at_last.alloc.shard_local_buffers}

\* C12 as stated: recorded attachments never overlap, and an attach whose byte
\* range overlaps any attachment recorded at the time of the call is rejected.
C12_AnyOverlapRejected ==
    /\ Disjoint
    /\ at_last.op = "attach" =>
           \A buf \in LastBufs : \A k \in DOMAIN at_last.before :
               ByteRange(buf[1], buf[2]) \cap ByteRange(k[1], k[2]) # {}
                   => at_last.error # ""

\* C12, amended: recorded attachments never overlap, and an attach whose byte
\* range overlaps a recorded attachment is rejected unless that attachment is
\* the entry under the buffer's own key and its region field was collected.
C12_NoOverlap ==
    /\ Disjoint
    /\ at_last.op = "attach" =>
           \A buf \in LastBufs : \A k \in DOMAIN at_last.before :
               (/\ ByteRange(buf[1], buf[2]) \cap ByteRange(k[1], k[2]) # {}
                /\ (k # attachment_key(buf) \/ at_last.before[k]._region_field \in at_last.alive))
                   => at_last.error # ""

\* C12 witness: with two attachments recorded, a third attach that lies across
\* both has just been rejected as aliased.
C12_Witness ==
    /\ at_last.op = "attach"
    /\ at_last.error = "AliasedAttachment"
    /\ Cardinality(DOMAIN _attachments) = 2
    /\ \A k \in DOMAIN _attachments :
           \E buf \in LastBufs : ByteRange(buf[1], buf[2]) \cap ByteRange(k[1], k[2]) # {}

\* C13: attaching a buffer whose key is recorded with a live region field raises
\* and leaves the map as it was; if the recorded region field was collected the
\* entry is replaced by the new attachment.
C13_DuplicateKey ==
    (at_last.op = "attach" /\ at_last.alloc.memoryview) =>
        LET key == attachment_key(at_last.alloc.shard_local_buffers[1])
        IN  key \in DOMAIN at_last.before =>
                IF at_last.before[key]._region_field \in at_last.alive
                THEN /\ at_last.error = "DuplicateAttachment"
                     /\ _attachments = at_last.before
                ELSE /\ at_last.error = ""
                     /\ _attachments =
                            DictSet(at_last.before, key,
                                    Attachment(key[1], key[2], TRUE, at_last.rf))

\* C13 witness: the entry under the key was stale and has just been replaced,
\* next to another attachment that stayed as it was.
C13_Witness ==
    /\ at_last.op = "attach"
    /\ at_last.alloc.memoryview
    /\ at_last.error = ""
    /\ LET key == attachment_key(at_last.alloc.shard_local_buffers[1])
       IN  /\ key \in DOMAIN at_last.before
           /\ at_last.before[key]._region_field \notin at_last.alive
           /\ _attachments[key]._region_field = at_last.rf
    /\ Cardinality(DOMAIN _attachments) = 2

NoRepeat(seq) == \A i, j \in DOMAIN seq : seq[i] = seq[j] => i = j

LastKeys ==
    {attachment_key(at_last.alloc.shard_local_buffers[i]) :
         i \in DOMAIN at_last.alloc.shard_local_buffers}

\* C30: a detachment passed with defer=true is launched exactly once, by the
\* next Runtime.dispatch: a call that launches anything launches the whole
\* deferred list first, each entry once and in the order it was deferred,
\* ahead of the operation that was dispatched, and leaves the list empty.
\* The deferring call removes the allocation's keys from the map and launches
\* nothing, and performing the deferred detachments leaves the map as it was.
C30_DeferredDetachments ==
    /\ NoRepeat(Detaches(_deferred_detachments))
    /\ NoRepeat(at_last.launched)
    /\ at_last.op = "dispatch" =>
           /\ at_last.launched = Append(Detaches(at_last.deferred), <<"op">>)
           /\ _deferred_detachments = <<>>
           /\ _attachments = at_last.before
    /\ at_last.op = "perform" =>
           /\ at_last.launched = Detaches(at_last.deferred)
           /\ _deferred_detachments = <<>>
           /\ _attachments = at_last.before
    /\ (at_last.op = "detach" /\ at_last.error = "") =>
           LET detach == detach_of(at_last.before, at_last.alloc)
               removed == [k \in DOMAIN at_last.before \ LastKeys |-> at_last.before[k]]
           IN  /\ LastKeys \subseteq DOMAIN at_last.before
               /\ _attachments = removed
               /\ \/ /\ at_last.launched = <<>>
                     /\ _deferred_detachments = Append(at_last.deferred, <<at_last.alloc, detach>>)
                  \/ /\ at_last.launched = Append(Detaches(at_last.deferred), detach)
                     /\ _deferred_detachments = <<>>

\* C30 witness: two detachments were deferred, the allocation of the first was
\* attached again, and a dispatch has just launched both, in order, ahead of
\* its own operation, with the new attachment still in the map.
C30_Witness ==
    /\ at_last.op = "dispatch"
    /\ Len(at_last.deferred) = 2
    /\ Len(at_last.launched) = 3
    /\ _deferred_detachments = <<>>
    /\ \E i \in DOMAIN at_last.deferred[1][1].shard_local_buffers :
           attachment_key(at_last.deferred[1][1].shard_local_buffers[i]) \in DOMAIN _attachments

\* C38: when attach_external_allocation raises, the attachment map is what it
\* was before the call, and no buffer is recorded for the region field of the
\* failed call.
C38_AttachAtomic ==
    (at_last.op = "attach" /\ at_last.error # "") =>
        /\ _attachments = at_last.before
        /\ \A key \in DOMAIN _attachments : _attachments[key]._region_field # at_last.rf

\* the stores and the broadcast stores of the ops handed to the Partitioner
PtAllStores == UNION {pt_ops[i].stores : i \in DOMAIN pt_ops}
PtBroadcasts == UNION {pt_ops[i].broadcasts : i \in DOMAIN pt_ops}

\* C33: in the Strategy that partition_stores returns, every scalar store and
\* every store of an op's broadcast set has NoPartition.
C33_BroadcastNoPartition ==
    \A sh \in Shards :
        PtDone(sh) =>
            \A store \in PtAllStores :
                (scalar(store) \/ store \in PtBroadcasts) =>
                    /\ store \in DOMAIN pt_run[sh].partitions
                    /\ pt_run[sh].partitions[store] = NoPartition

\* C37: the Strategy that partition_stores returns has a partition for every
\* store of the ops handed to the Partitioner and a field space for every
\* unbound one, whatever alignments the ops recorded.
C37_StrategyTotal ==
    \A sh \in Shards :
        PtDone(sh) =>
            \A store \in PtAllStores :
                /\ store \in DOMAIN pt_run[sh].partitions
                /\ unbound(store) => store \in DOMAIN pt_run[sh].fspaces

(***************************************************************************)
(* Properties of dispatch through the window (checked under Spec)          *)
(***************************************************************************)
\* how many times op id has reached the engine, alone or inside a fused task
LaunchCount(id) ==
    Cardinality({pa \in (DOMAIN engine) \X (1..window_size) :
                    pa[2] \in DOMAIN engine[pa[1]].ids /\ engine[pa[1]].ids[pa[2]] = id})
\* how many times op id waits in the window or in the emission list
WaitCount(id) ==
    Cardinality({k \in DOMAIN outstanding_ops : id \in Range(outstanding_ops[k].ids)})
        + Cardinality({k \in DOMAIN pipe : id \in Range(pipe[k].ids)})
\* a launch of the emission loop has raised to the caller of submit or flush
LaunchRaised == rt_pc = "idle" /\ clearing_pipe

RECURSIVE MatchFields(_)
\* the field lists of the queued matches, one after the other
MatchFields(queue) ==
    IF queue = <<>> THEN <<>> ELSE Head(queue).fields \o MatchFields(Tail(queue))
\* every place of shard s in which a freed field can be
Reclaimable(s) == freed_fields[s] \o MatchFields(matches[s]) \o free_fields[s]
\* the fields shard s has created so far: full earlier regions and the fields
\* of the active region
Created(s) ==
    {f \in (1..top_regions[s]) \X (1..FieldSpaceCapacity) :
        f[1] < top_regions[s] \/ f[2] <= active_fields[s]}

\* C36: on every shard, a field handed out and not yet freed is in none of
\* freed_fields, the queued matches and free_fields; every other created field
\* is in exactly one of them, exactly once; and allocate_field never returns a
\* field that is still handed out.
C36_FieldConservation ==
    /\ [](\A s \in Shards :
             /\ NoRepeat(Reclaimable(s))
             /\ Range(Reclaimable(s)) = Created(s) \ held[s])
    /\ [][\A s \in Shards :
             Len(returned'[s]) > Len(returned[s]) => Last(returned'[s]) \notin held[s]]_vars

\* C36 witness: a shard got a field a second time, after freeing it, while
\* another freed field waits in freed_fields or in a queued match.
C36_Witness ==
    \E s \in Shards :
        /\ \E i, j \in DOMAIN returned[s] : i < j /\ returned[s][i] = returned[s][j]
        /\ freed_fields[s] \o MatchFields(matches[s]) # <<>>

\* C39: clearing_pipe is false whenever no _schedule call is active, also
\* after a launch of the emission loop raised; and a submit made then puts the
\* op in the window, or drains the window with the op as its last member.
C39_ClearingPipeReset ==
    /\ [](rt_pc = "idle" => ~clearing_pipe)
    /\ [][UserSubmit =>
              \/ /\ outstanding_ops' # <<>>
                 /\ Last(outstanding_ops').ids = <<next_id'>>
              \/ /\ checked' # checked
                 /\ Last(Last(checked')) = next_id']_vars

(***************************************************************************)
(* Properties of Copy.launch (checked under SpecCopy)                      *)
(***************************************************************************)
\* C40: a Copy that passes the length assertions of Copy.launch and was
\* partitioned on its own is launched without a no-strategy error: every store
\* it looks up, indirection stores included, has an entry in the Strategy.
C40_CopyLookups ==
    cp_pc = "done" =>
        /\ cp_result.error # "No strategy is found"
        /\ cp_result.error = "" =>
               Range(cp_op._source_indirects) \cup Range(cp_op._target_indirects)
                   \subseteq DOMAIN cp_run.partitions

(***************************************************************************)
(* Properties of AttachmentManager.destroy (checked under SpecDestroy)     *)
(***************************************************************************)
DsLaunched == UNION {Range(ds_launched[k]) : k \in DOMAIN ds_launched}

LsCalled == ls_calls > 0 /\ ~ls_last.result.isNone

\* C14: every component of a non-null launch shape is at least 1 and at most
\* the extent of that dimension, and is 1 on a RESTRICTED dimension.
C14_LaunchShapeBounds ==
    LsCalled =>
        /\ Len(ls_last.result.extents) = Len(ls_last.shape)
        /\ \A d \in DOMAIN ls_last.shape :
               /\ ls_last.result.extents[d] >= 1
               /\ ls_last.result.extents[d] <= ls_last.shape[d]
               /\ ls_last.restrictions[d] = "RESTRICTED" => ls_last.result.extents[d] = 1

\* C15: the product of the components of a non-null launch shape is at most
\* num_pieces.
C15_LaunchShapeProduct ==
    LsCalled => volume(ls_last.result.extents) <= _num_pieces

\* C15 witness: a launch shape that splits each of three dimensions and uses
\* all the pieces.
C15_Witness ==
    /\ LsCalled
    /\ Len(ls_last.shape) = 3
    /\ \A d \in DOMAIN ls_last.shape : ls_last.result.extents[d] > 1
    /\ volume(ls_last.result.extents) = _num_pieces

\* C16: a call returns what the first call with the same shape and restrictions
\* returned, and what it would return with nothing cached.
C16_MemoizationTransparent ==
    ls_calls > 0 =>
        /\ ls_last.result = ls_last.fresh
        /\ ls_last.repeat => ls_last.result = ls_last.first

\* C16 witness: a repeated call answered from the cache with a non-null shape,
\* after another shape was computed in between.
C16_Witness ==
    /\ LsCalled
    /\ ls_last.repeat
    /\ ls_last.hit
    /\ Cardinality(DOMAIN _launch_spaces) >= 2
    /\ Cardinality(DOMAIN ls_seen) >= 2

\* the product of the extents of the dimensions that are not RESTRICTED
RECURSIVE KeptVolume(_, _)
KeptVolume(shape, restrictions) ==
    IF shape = <<>> THEN 1
    ELSE (IF Head(restrictions) = "RESTRICTED" THEN 1 ELSE Head(shape))
             * KeptVolume(Tail(shape), Tail(restrictions))

\* the three cases in which the launch shape is null
NullCase ==
    \/ _num_pieces = 1
    \/ \A d \in DOMAIN ls_last.shape : ls_last.shape[d] <= 1
    \/ (KeptVolume(ls_last.shape, ls_last.restrictions) + _min_shard_volume - 1)
           \div _min_shard_volume = 1

\* a store whose only extents above 1 are in RESTRICTED dimensions
OnlyRestrictedExtents ==
    /\ \E d \in DOMAIN ls_last.shape : ls_last.shape[d] > 1
    /\ \A d \in DOMAIN ls_last.shape :
           ls_last.shape[d] > 1 => ls_last.restrictions[d] = "RESTRICTED"

\* C32 as stated: the launch shape is null exactly in the three cases, and a
\* store whose only extent above 1 is in a RESTRICTED dimension is not one of
\* them: with more than one piece it gets a Shape of its own rank.
C32_NullCases ==
    ls_calls > 0 =>
        /\ ls_last.result.isNone <=> NullCase
        /\ ~ls_last.result.isNone => Len(ls_last.result.extents) = Len(ls_last.shape)
        /\ (OnlyRestrictedExtents /\ _num_pieces # 1) => ~ls_last.result.isNone

\* C32, amended: the launch shape is null exactly in the three cases and is a
\* Shape of the store's rank otherwise; a store whose only extent above 1 is
\* in a RESTRICTED dimension falls under the third case and gets null.
C32_NullExactly ==
    ls_calls > 0 =>
        /\ ls_last.result.isNone <=> NullCase
        /\ ~ls_last.result.isNone => Len(ls_last.result.extents) = Len(ls_last.shape)
        /\ OnlyRestrictedExtents => ls_last.result.isNone

\* C32 witness: with several pieces and a shard volume of 1, a store whose
\* only extent above 1 is RESTRICTED has just been given a null launch shape.
C32_Witness ==
    /\ ls_calls > 0
    /\ _num_pieces > 1
    /\ _min_shard_volume = 1
    /\ OnlyRestrictedExtents
    /\ ls_last.result.isNone

(***************************************************************************)
(* Properties of Operation and of the fused-op header (SpecOperation)      *)
(***************************************************************************)
Fused == op_fused # NoFused
\* the slice [starts[k], starts[k + 1]) of a list, for the k-th sub-op
Slice(list, starts, k) == SubSeq(list, starts[k] + 1, starts[k + 1])
RoundTrip(list, starts, field) ==
    /\ Len(starts) = Len(op_window) + 1
    /\ starts[1] = 0
    /\ starts[Len(starts)] = Len(list)
    /\ \A k \in DOMAIN op_window :
           Slice(list, starts, k) =
               (CASE field = "_inputs" -> op_window[k]._inputs
                  [] field = "_outputs" -> op_window[k]._outputs
                  [] field = "_reductions" -> op_window[k]._reductions)

\* C21: in a fused task, the slice of its inputs between input_starts[k] and
\* input_starts[k+1] is sub-op k's inputs in order, likewise for outputs and
\* reductions; each start array begins at 0 and ends at the total count.
C21_HeaderRoundTrip ==
    Fused =>
        /\ op_fused.error = ""
        /\ RoundTrip(op_fused.task._inputs, op_fused.fusion_metadata.input_starts, "_inputs")
        /\ RoundTrip(op_fused.task._outputs, op_fused.fusion_metadata.output_starts,
                     "_outputs")
        /\ RoundTrip(op_fused.task._reductions, op_fused.fusion_metadata.reduction_starts,
                     "_reductions")

\* C21 witness: a fused task of two sub-ops that both have inputs, one of them
\* an output as well.
C21_Witness ==
    /\ Fused
    /\ Len(op_window) = 2
    /\ \A k \in DOMAIN op_window : op_window[k]._inputs # <<>>
    /\ op_window[1]._outputs # <<>>

\* C22: an operation never has both a scalar output and a scalar reduction; an
\* add_output or add_reduction of a scalar store on an operation that has one
\* of them raises an error and leaves the operation as it was.
C22_OneScalarOutput ==
    /\ \A op \in {op_cur} \cup Range(op_window) :
           ~(op._scalar_output # NoStore /\ op._scalar_reduction # NoReduction)
    /\ (/\ op_last.call \in {"add_output", "add_reduction"}
        /\ scalar(op_last.store)
        /\ (op_last.before._scalar_output # NoStore
                \/ op_last.before._scalar_reduction # NoReduction))
           => (op_last.error # "" /\ op_last.after = op_last.before)

\* C22 witness: a scalar output was added to an operation whose scalar
\* reduction was set, and the call was refused.
C22_Witness ==
    /\ op_last.call = "add_output"
    /\ scalar(op_last.store)
    /\ op_last.before._scalar_reduction # NoReduction
    /\ op_last.before._reductions # <<>>
    /\ op_last.error # ""
    /\ op_cur = op_last.before

\* the entries sub-op op contributes to offsets: +i for its i-th input, -i for
\* its i-th output, -i for its i-th reduction
SubOpEntries(op) ==
    [n \in 1..(Len(op._inputs) + Len(op._outputs) + Len(op._reductions)) |->
        IF n <= Len(op._inputs) THEN n
        ELSE IF n <= Len(op._inputs) + Len(op._outputs) THEN Len(op._inputs) - n
        ELSE Len(op._inputs) + Len(op._outputs) - n]
\* a start array: one entry per sub-op and a terminator, never decreasing
StartArray(starts) ==
    /\ Len(starts) = Len(op_window) + 1
    /\ \A k \in 1..(Len(starts) - 1) : starts[k] <= starts[k + 1]

\* C34: in the header of a fused op, each of the six start arrays has one entry
\* per sub-op plus a terminator and never decreases, op_ids has one entry per
\* sub-op, offsets has exactly as many entries as the terminator of
\* offset_starts says, and the slice of offsets between offset_starts[k] and
\* offset_starts[k+1] is exactly sub-op k's entries, reductions included.
C34_HeaderOffsets ==
    Fused =>
        LET meta == op_fused.fusion_metadata
        IN  /\ StartArray(meta.input_starts)
            /\ StartArray(meta.output_starts)
            /\ StartArray(meta.offset_starts)
            /\ StartArray(meta.reduction_starts)
            /\ StartArray(meta.scalar_starts)
            /\ StartArray(meta.future_starts)
            /\ Len(meta.op_ids) = Len(op_window)
            /\ Len(meta.offsets) = meta.offset_starts[Len(op_window) + 1]
            /\ \A k \in DOMAIN op_window :
                   Slice(meta.offsets, meta.offset_starts, k) = SubOpEntries(op_window[k])

(***************************************************************************)
(* Properties of Runtime.get_projection (SpecProjection)                   *)
(***************************************************************************)
PjCalled == pj_last.result # 0
PjHit == pj_last.spec \in DOMAIN pj_last.before._registered_projections
Injective(d) == \A k1, k2 \in DOMAIN d : d[k1] = d[k2] => k1 = k2

\* C23: a repeated get_projection call returns the id recorded for the key,
\* registers nothing and moves no counter; a miss takes the next id of each
\* counter; distinct keys have distinct ids, the two counters are equal, and
\* the sharding id of a key has the local id of its projection id.
C23_ProjectionMemo ==
    /\ (PjCalled /\ PjHit) =>
           /\ pj_last.result = pj_last.before._registered_projections[pj_last.spec]
           /\ PjState = pj_last.before
    /\ (PjCalled /\ ~PjHit) =>
           /\ pj_last.result = get_projection_id(pj_last.before._next_projection_id)
           /\ _registered_projections[pj_last.spec] = pj_last.result
           /\ local_id_of(_registered_shardings[pj_last.spec])
                  = pj_last.before._next_sharding_id
           /\ _next_projection_id = pj_last.before._next_projection_id + 1
           /\ _next_sharding_id = pj_last.before._next_sharding_id + 1
           /\ Len(pj_functors) = Len(pj_last.before.pj_functors) + 2
    /\ Injective(_registered_projections)
    /\ Injective(_registered_shardings)
    /\ _next_projection_id = _next_sharding_id
    /\ DOMAIN _registered_shardings = DOMAIN _registered_projections
    /\ \A spec \in DOMAIN _registered_projections :
           local_id_of(_registered_shardings[spec])
               = local_id_of(_registered_projections[spec])

\* C23 witness: a repeated call for the second of three registered keys.
C23_Witness ==
    /\ PjCalled
    /\ PjHit
    /\ Cardinality(DOMAIN _registered_projections) = 3
    /\ pj_last.result = get_projection_id(LEGATE_CORE_FIRST_DYNAMIC_FUNCTOR_ID + 1)

(***************************************************************************)
(* Further properties of FusionChecker.can_fuse (SpecFusion)               *)
(***************************************************************************)
Allowlisted(i) == fc_ops[i]._task_id \in {2, 10, 21}
AfterAllValidOps == fc_hist[2]
Candidates == fc_hist[Len(Constraints) + 1]

\* C24: in the intervals can_fuse returns, an op whose task id is not 2, 10 or
\* 21 is alone in a singleton interval and an interval of length 2 or more holds
\* allowlisted ops only; AllValidOps keeps two adjacent allowlisted ops of one
\* input interval together.
C24_Allowlist ==
    /\ FcDone =>
           /\ \A i \in DOMAIN fc_ops :
                  ~Allowlisted(i) => \E k \in DOMAIN windows : windows[k] = <<i - 1, i>>
           /\ \A k \in DOMAIN windows :
                  IntervalLen(windows[k]) >= 2 => \A i \in Members(windows[k]) : Allowlisted(i)
    /\ fc_pc >= 1 =>
           \A i \in 1..(Len(fc_ops) - 1) :
               (Allowlisted(i) /\ Allowlisted(i + 1)) =>
                   \E k \in DOMAIN AfterAllValidOps :
                       {i, i + 1} \subseteq Members(AfterAllValidOps[k])

\* C24 witness: can_fuse returned a fused interval next to an op that is not
\* allowlisted.
C24_Witness ==
    /\ FcDone
    /\ \E k \in DOMAIN windows : IntervalLen(windows[k]) >= 2
    /\ \E i \in DOMAIN fc_ops : ~Allowlisted(i)

\* C25: every interval can_fuse returns has length 1 or at least
\* fusion_threshold: a candidate of at least that length is returned as it is,
\* a shorter one is returned as its singletons; `fusable` is true iff an
\* interval of at least that length is returned.
C25_SmallFusions ==
    FcDone =>
        /\ \A k \in DOMAIN windows :
               \/ IntervalLen(windows[k]) = 1
               \/ IntervalLen(windows[k]) >= fusion_threshold
        /\ \A c \in DOMAIN Candidates :
               IF IntervalLen(Candidates[c]) >= fusion_threshold
               THEN Candidates[c] \in Range(windows)
               ELSE \A i \in Members(Candidates[c]) : <<i - 1, i>> \in Range(windows)
        /\ \A k \in DOMAIN windows :
               \E c \in DOMAIN Candidates :
                   /\ Members(windows[k]) \subseteq Members(Candidates[c])
                   /\ IntervalLen(Candidates[c]) >= fusion_threshold
                          => windows[k] = Candidates[c]
        /\ fusable <=> \E k \in DOMAIN windows : IntervalLen(windows[k]) >= fusion_threshold

\* C25 witness: the passes left a candidate of length 2, which is returned, and
\* one of length 1.
C25_Witness ==
    /\ FcDone
    /\ fusable
    /\ \E c \in DOMAIN Candidates : IntervalLen(Candidates[c]) = fusion_threshold
    /\ \E c \in DOMAIN Candidates : IntervalLen(Candidates[c]) = 1

(***************************************************************************)
(* Further properties of FieldManager.allocate_field (SpecFields)          *)
(***************************************************************************)
\* allocate_field calls shard s has entered
Begun(s) == Len(returned[s]) + (IF fm_pc[s] = "idle" THEN 0 ELSE 1)
NoNewField == top_regions' = top_regions /\ active_fields' = active_fields
HandsOut(s, f) == returned'[s] = Append(returned[s], f)

FmiSize == volume(fmi_args.shape) * fmi_args.dtype_size
CeilDiv(a, b) == (a + b - 1) \div b

\* C28: for every shape, element size and tunable values, construction
\* succeeds with 1 <= match_frequency <= FIELD_REUSE_FREQUENCY; the frequency
\* is FIELD_REUSE_FREQUENCY when the size is at most FIELD_REUSE_SIZE and
\* ceil(FIELD_REUSE_FREQUENCY / ceil(size / FIELD_REUSE_SIZE)) otherwise.
C28_MatchFrequency ==
    fmi_made # NotMade =>
        /\ fmi_made.error = ""
        /\ 1 <= fmi_made.match_frequency
        /\ fmi_made.match_frequency <= fmi_args.max_field_reuse_frequency
        /\ fmi_made.match_frequency =
               IF FmiSize <= fmi_args.max_field_reuse_size
               THEN fmi_args.max_field_reuse_frequency
               ELSE CeilDiv(fmi_args.max_field_reuse_frequency,
                            CeilDiv(FmiSize, fmi_args.max_field_reuse_size))

(***************************************************************************)
(* Properties of RegionManager (SpecRegion)                                *)
(***************************************************************************)
Saturated(region) == rm_fields[region] >= FieldSpaceCapacity

\* C29: active_region is the last region the manager created, and every other
\* region of the pool is saturated.
C29_ActiveRegion ==
    _top_regions # <<>> =>
        /\ rm_created # <<>>
        /\ active_region(RmState) = Last(rm_created)
        /\ \A region \in Range(_top_regions) :
               region # active_region(RmState) => Saturated(region)

====
